---------------------------- MODULE Spec2Model ----------------------------
(***************************************************************************)
(* A model of the sdds package (pylhc/sdds): the Document aggregate        *)
(* (classes.py), the reader (reader.py) and the writer (writer.py).        *)
(*                                                                         *)
(* Representation.  A Python str and a Python bytes object are both        *)
(* sequences of character codes (ASCII codes, so that encoding and         *)
(* decoding with ENCODING = "utf-8" is the identity on the alphabet used). *)
(* An Optional[...] field is <<>> for None and <<v>> for the value v.      *)
(* A numpy array is a record [shape, flat]: its extents and its elements   *)
(* in row-major order.                                                     *)
(***************************************************************************)
EXTENDS Integers, Sequences, FiniteSets, TLC

VARIABLES
    pc,               \* the step of the operation in progress
    orig_defs,        \* _sort_definitions: its argument
    definitions_list, \* SddsFile.__init__: its definitions_list argument
    values_list,      \* SddsFile.__init__: its values_list argument
    sdds_file,        \* the Document (SddsFile object) at hand, or Unset
    mode,             \* write_sdds: its mode argument (None or a str)
    outbytes,         \* the file write_sdds produced
    written_fields,   \* names of the definitions of the payload fields written, in order
    inbytes,          \* the stream read_sdds reads
    pos,              \* the position of inbytes
    sys_byteorder,           \* sys.byteorder of the host
    endianness,       \* read_sdds: the byte order in use
    header,           \* what _read_header returned
    ascii_text,       \* _read_data_ascii: the lines of the data section
    cursor,           \* data-section cursor: byte offset (binary) or lines taken (ascii)
    def_index,        \* the number of definitions _read_data has gone through
    data_list,        \* the values decoded so far
    read_fields,      \* names of the definitions whose payload field was read, in order
    result            \* what the operation returned or raised

vars == <<pc, orig_defs, definitions_list, values_list, sdds_file, mode, outbytes,
          written_fields, inbytes, pos, sys_byteorder, endianness, header, ascii_text, cursor,
          def_index, data_list, read_fields, result>>

\* the variables of write_sdds and of read_sdds
io_vars == <<sdds_file, mode, outbytes, written_fields, inbytes, pos, sys_byteorder, endianness,
             header, ascii_text, cursor, def_index, data_list, read_fields>>

-----------------------------------------------------------------------------
(* Text: character codes and the str methods the code uses.                *)

\* ord as a table over the newline and the ASCII characters from code 32 to
\* code 95 and from code 97 to code 126
OrdTable ==
    LET Printable ==
            <<" !\"#$%&'()*+,-./0123456789:;<=>?@ABCDEFGHIJKLMNOPQRSTUVWXYZ[\\]^_",
              "abcdefghijklmnopqrstuvwxyz{|}~">>
    IN
    [c \in {SubSeq(Printable[1], i, i) : i \in 1..Len(Printable[1])}
            \cup {SubSeq(Printable[2], i, i) : i \in 1..Len(Printable[2])} \cup {"\n"} |->
        IF c = "\n" THEN 10
        ELSE IF \E i \in 1..Len(Printable[1]) : SubSeq(Printable[1], i, i) = c
        THEN 31 + CHOOSE i \in 1..Len(Printable[1]) : SubSeq(Printable[1], i, i) = c
        ELSE 96 + CHOOSE i \in 1..Len(Printable[2]) : SubSeq(Printable[2], i, i) = c]

\* ord(c)
Ord(c) == OrdTable[c]

\* a str (or bytes) literal
B(s) == [i \in 1..Len(s) |-> OrdTable[SubSeq(s, i, i)]]

NL == Ord("\n")
SP == Ord(" ")
\* the characters str.strip() and str.split() treat as whitespace
Whitespace == {9, 10, 11, 12, 13, 28, 29, 30, 31, 32}

RECURSIVE Concat(_)
\* "".join(parts)
Concat(parts) == IF parts = <<>> THEN <<>> ELSE Head(parts) \o Concat(Tail(parts))

RECURSIVE Join(_, _)
\* sep.join(parts)
Join(sep, parts) ==
    IF parts = <<>> THEN <<>>
    ELSE IF Len(parts) = 1 THEN parts[1]
    ELSE parts[1] \o sep \o Join(sep, Tail(parts))

RECURSIVE LStrip(_)
LStrip(s) == IF s # <<>> /\ Head(s) \in Whitespace THEN LStrip(Tail(s)) ELSE s

RECURSIVE RStrip(_)
RStrip(s) ==
    IF s # <<>> /\ s[Len(s)] \in Whitespace THEN RStrip(SubSeq(s, 1, Len(s) - 1)) ELSE s

\* str.strip()
Strip(s) == LStrip(RStrip(s))

\* the k-th smallest element of a set of integers
Nth(S, k) == CHOOSE i \in S : Cardinality({j \in S : j < i}) = k - 1

\* str.split(sep) for a one-character sep: every piece, empty ones included;
\* seps is the set of the indices of the separators
Split(s, sep) ==
    LET At(seps) ==
            [k \in 1..(Cardinality(seps) + 1) |->
                SubSeq(s,
                       IF k = 1 THEN 1 ELSE Nth(seps, k - 1) + 1,
                       IF k = Cardinality(seps) + 1 THEN Len(s) ELSE Nth(seps, k) - 1)]
    IN  At({i \in 1..Len(s) : s[i] = sep})

\* str.split(): the maximal runs of non-whitespace characters, which start at
\* the indices starts and end at the indices ends
Words(s) ==
    LET Runs(starts, ends) ==
            [k \in 1..Cardinality(starts) |-> SubSeq(s, Nth(starts, k), Nth(ends, k))]
    IN  Runs({i \in 1..Len(s) : s[i] \notin Whitespace /\ (i = 1 \/ s[i - 1] \in Whitespace)},
             {i \in 1..Len(s) :
                 s[i] \notin Whitespace /\ (i = Len(s) \/ s[i + 1] \in Whitespace)})

\* str.startswith(prefix)
StartsWith(s, prefix) == Len(s) >= Len(prefix) /\ SubSeq(s, 1, Len(prefix)) = prefix

\* str.lower() on the model's alphabet
LowerStr(s) == [i \in 1..Len(s) |-> IF s[i] >= 65 /\ s[i] <= 90 THEN s[i] + 32 ELSE s[i]]

RECURSIVE NatToStr(_)
NatToStr(n) == IF n < 10 THEN <<48 + n>> ELSE Append(NatToStr(n \div 10), 48 + (n % 10))

\* str(n), "%i" % n
IntToStr(n) == IF n < 0 THEN <<45>> \o NatToStr(0 - n) ELSE NatToStr(n)

IsDigits(s) == s # <<>> /\ \A i \in 1..Len(s) : s[i] >= 48 /\ s[i] <= 57

RECURSIVE DigitsToNat(_)
DigitsToNat(s) == IF s = <<>> THEN 0 ELSE 10 * DigitsToNat(SubSeq(s, 1, Len(s) - 1)) + (s[Len(s)] - 48)

\* whether int(s) succeeds: optional surrounding whitespace, optional sign, digits
IsIntLiteral(s) ==
    LET Signed(t) == IF t # <<>> /\ Head(t) \in {43, 45} THEN IsDigits(Tail(t)) ELSE IsDigits(t)
    IN  Signed(Strip(s))

\* int(s) where it succeeds
ParseInt(s) ==
    LET Signed(t) ==
            IF Head(t) = 45 THEN 0 - DigitsToNat(Tail(t))
            ELSE IF Head(t) = 43 THEN DigitsToNat(Tail(t))
            ELSE DigitsToNat(t)
    IN  Signed(Strip(s))

-----------------------------------------------------------------------------
(* classes.py                                                              *)

None == <<>>
Some(v) == <<v>>
Unset == [unset |-> TRUE]

\* Column.TAG, Parameter.TAG, Array.TAG, Description.TAG, Data.TAG
ColumnTAG == B("&column")
ParameterTAG == B("&parameter")
ArrayTAG == B("&array")
DescriptionTAG == B("&description")
DataTAG == B("&data")

\* an ordered mapping (dict): a sequence of <<key, value>> pairs with distinct keys
DictKeys(d) == [i \in 1..Len(d) |-> d[i][1]]
DictKeySet(d) == {d[i][1] : i \in 1..Len(d)}
DictHas(d, k) == \E i \in 1..Len(d) : d[i][1] = k
DictGet(d, k) == d[CHOOSE i \in 1..Len(d) : d[i][1] = k][2]
\* d[k] = v: a new key goes last, a known key keeps its place
DictPut(d, k, v) ==
    IF DictHas(d, k)
    THEN [i \in 1..Len(d) |-> IF d[i][1] = k THEN <<k, v>> ELSE d[i]]
    ELSE Append(d, <<k, v>>)
\* d.pop(k)
DictPop(d, k) == SelectSeq(d, LAMBDA kv : kv[1] # k)

RECURSIVE DictFromPairs(_)
\* {key: value for (key, value) in pairs}
DictFromPairs(pairs) ==
    IF pairs = <<>> THEN <<>>
    ELSE LET last == pairs[Len(pairs)]
         IN  DictPut(DictFromPairs(SubSeq(pairs, 1, Len(pairs) - 1)), last[1], last[2])

\* the dataclass fields of each definition class, in declaration order
BaseFields == <<"name", "type", "symbol", "units", "description", "format">>
FieldSeq(kind) ==
    IF kind = "Parameter" THEN BaseFields \o <<"fixed_value">>
    ELSE IF kind = "Array" THEN BaseFields \o <<"field_length", "group_name", "dimensions">>
    ELSE BaseFields
FieldSet(kind) == {FieldSeq(kind)[i] : i \in 1..Len(FieldSeq(kind))}
\* the fields hinted Optional[int]; the other optional fields are Optional[str]
IntFields == {"field_length", "dimensions"}
RequiredFields == {"name", "type"}

\* a definition object of class kind with the given optional fields set
Definition(kind, name, type, opts) ==
    [f \in {"kind"} \cup FieldSet(kind) |->
        IF f = "kind" THEN kind
        ELSE IF f = "name" THEN name
        ELSE IF f = "type" THEN type
        ELSE IF f \in DOMAIN opts THEN opts[f]
        ELSE None]

NoOpts == [f \in {} |-> None]

-----------------------------------------------------------------------------
(* reader.py: _sort_definitions                                            *)

_sort_definitions_swapped(defs) ==
    SelectSeq(defs, LAMBDA d : d.kind = "Array")
        \o SelectSeq(defs, LAMBDA d : d.kind = "Parameter")
        \o SelectSeq(defs, LAMBDA d : d.kind = "Column")

_sort_definitions(defs) ==
    SelectSeq(defs, LAMBDA d : d.kind = "Parameter")
        \o SelectSeq(defs, LAMBDA d : d.kind = "Array")
        \o SelectSeq(defs, LAMBDA d : d.kind = "Column")

-----------------------------------------------------------------------------
(* classes.py: SddsFile                                                    *)

HasDuplicateNames(defs) ==
    LET name_list == [i \in 1..Len(defs) |-> defs[i].name]
    IN  Len(name_list) # Cardinality({name_list[i] : i \in 1..Len(name_list)})

\* zip(a, b): as long as the shorter of both
Zip(a, b) ==
    LET n == IF Len(a) < Len(b) THEN Len(a) ELSE Len(b)
    IN  [i \in 1..n |-> <<a[i], b[i]>>]

\* the attributes __init__ has set when it returns or raises
SddsFileAttributes(version, description, defs, vals) ==
    [status |-> "ok",
     self |-> [version |-> version,
               description |-> description,
               definitions |-> DictFromPairs([i \in 1..Len(defs) |-> <<defs[i].name, defs[i]>>]),
               values |-> DictFromPairs([i \in 1..Len(Zip(defs, vals)) |->
                                            <<Zip(defs, vals)[i][1].name, Zip(defs, vals)[i][2]>>])]]

\* SddsFile.__init__ without its check of the names
SddsFile__init__unchecked(version, description, defs, vals) ==
    SddsFileAttributes(version, description, defs, vals)

SddsFile__init__(version, description, defs, vals) ==
    IF HasDuplicateNames(defs)
    THEN [status |-> "ValueError", self |-> [version |-> version]]
    ELSE SddsFileAttributes(version, description, defs, vals)

\* SddsFile.__getitem__
GetItem(file, name) == <<DictGet(file.definitions, name), DictGet(file.values, name)>>

SDDS1 == B("SDDS1")
TypeLong == B("long")
TypeString == B("string")
Names == <<B("a"), B("b"), B("c")>>

-----------------------------------------------------------------------------
(* classes.py: constructing the definition classes from keyword arguments  *)

\* Definition.__post_init__ on one Optional field given as a str
PostInitField(f, value) ==
    IF LowerStr(value) = B("none") THEN [status |-> "ok", value |-> None]
    ELSE IF f \in IntFields
         THEN IF IsIntLiteral(value)
              THEN [status |-> "ok", value |-> Some(ParseInt(value))]
              ELSE [status |-> "ValueError", value |-> None]
         ELSE [status |-> "ok", value |-> Some(value)]

\* cls(name=def_dict.pop("name"), type=def_dict.pop("type"), **def_dict)
\* for cls one of Parameter, Array, Column and def_dict a dict of strs; rest
\* is the dict without "name" and "type"
MakeDefinition(kind, def_dict) ==
    LET From(rest) ==
            IF \E i \in 1..Len(rest) :
                   \A f \in FieldSet(kind) \ RequiredFields : rest[i][1] # B(f)
            THEN [status |-> "TypeError"]
            ELSE IF \E f \in FieldSet(kind) \ RequiredFields :
                        /\ DictHas(rest, B(f))
                        /\ PostInitField(f, DictGet(rest, B(f))).status # "ok"
            THEN [status |-> "ValueError"]
            ELSE [status |-> "ok",
                  def |-> [f \in {"kind"} \cup FieldSet(kind) |->
                              IF f = "kind" THEN kind
                              ELSE IF f = "name" THEN DictGet(def_dict, B("name"))
                              ELSE IF f = "type" THEN DictGet(def_dict, B("type"))
                              ELSE IF DictHas(rest, B(f))
                              THEN PostInitField(f, DictGet(rest, B(f))).value
                              ELSE None]]
    IN  IF ~DictHas(def_dict, B("name")) \/ ~DictHas(def_dict, B("type"))
        THEN [status |-> "KeyError"]
        ELSE From(DictPop(DictPop(def_dict, B("name")), B("type")))

\* Description(**def_dict): the fields are kept as given
MakeDescription(def_dict) ==
    IF \E i \in 1..Len(def_dict) : def_dict[i][1] \notin {B("text"), B("contents")}
    THEN [status |-> "TypeError"]
    ELSE [status |-> "ok",
          description |->
              [text |-> IF DictHas(def_dict, B("text"))
                        THEN Some(DictGet(def_dict, B("text"))) ELSE None,
               contents |-> IF DictHas(def_dict, B("contents"))
                            THEN Some(DictGet(def_dict, B("contents"))) ELSE None]]

-----------------------------------------------------------------------------
(* reader.py: the header tokenizer                                         *)

\* min(S)
Min(S) == CHOOSE n \in S : \A m \in S : n <= m

\* the offset after the line that starts at offset p (inbytes.readline())
LineEnd(bytes, p) ==
    IF \A i \in (p + 1)..Len(bytes) : bytes[i] # NL THEN Len(bytes)
    ELSE Min({i \in (p + 1)..Len(bytes) : bytes[i] = NL})

Bang == B("!")
EndTAG == B("&end")
Comma == Ord(",")
Equals == Ord("=")

RECURSIVE _gen_real_lines_and_comments(_, _)
\* a line generator that yields the comment lines too
_gen_real_lines_and_comments(bytes, p) ==
    LET RealLine(line, e) ==
            IF line # <<NL>> THEN <<[text |-> Strip(line), end |-> e]>> ELSE <<>>
        LinesFrom(e) ==
            RealLine(SubSeq(bytes, p + 1, e), e) \o _gen_real_lines_and_comments(bytes, e)
    IN  IF p >= Len(bytes) THEN <<>> ELSE LinesFrom(LineEnd(bytes, p))

RECURSIVE _gen_real_lines(_, _)
\* the stripped lines that are neither "\n" nor comments, each with the offset
\* of the stream once the line is read
_gen_real_lines(bytes, p) ==
    LET \* what is yielded for the line read, e the offset after it
        RealLine(line, e) ==
            IF line # <<NL>> /\ ~StartsWith(Strip(line), Bang)
            THEN <<[text |-> Strip(line), end |-> e]>>
            ELSE <<>>
        LinesFrom(e) == RealLine(SubSeq(bytes, p + 1, e), e) \o _gen_real_lines(bytes, e)
    IN  IF p >= Len(bytes) THEN <<>> ELSE LinesFrom(LineEnd(bytes, p))

RECURSIVE WordsOfLines(_)
\* for line in _gen_real_lines(inbytes): for word in line.split(): yield word
WordsOfLines(lines) ==
    LET TagWords(ws, end) == [i \in 1..Len(ws) |-> [word |-> ws[i], end |-> end]]
    IN  IF lines = <<>> THEN <<>>
        ELSE TagWords(Words(Head(lines).text), Head(lines).end) \o WordsOfLines(Tail(lines))

\* the words the generator yields, each with the offset of the stream when it
\* is yielded (the line that holds the word has been read, no later line has)
_gen_words(bytes) == WordsOfLines(_gen_real_lines(bytes, 0))

\* a generator that has read every line of the stream before it yields
StreamPos_all_read(bytes, words, k, exhausted) == Len(bytes)

\* the position of the stream when k words have been taken from the generator
\* and, if exhausted, one more was asked for
StreamPos(bytes, words, k, exhausted) ==
    IF exhausted THEN Len(bytes)
    ELSE IF k = 0 THEN 0
    ELSE words[k].end

\* the index of the last word from index i on that is &end, 0 if there is none
FindEnd_last(words, i) ==
    IF \A k \in i..Len(words) : Strip(words[k].word) # EndTAG THEN 0
    ELSE CHOOSE k \in i..Len(words) :
             /\ Strip(words[k].word) = EndTAG
             /\ \A j \in (k + 1)..Len(words) : Strip(words[j].word) # EndTAG

RECURSIVE FindEnd(_, _)
\* the index of the first word from index i on that is &end, 0 if there is none
FindEnd(words, i) ==
    IF i > Len(words) THEN 0
    ELSE IF Strip(words[i].word) = EndTAG THEN i
    ELSE FindEnd(words, i + 1)

\* _get_def_as_dict with the generator about to yield word number i
_get_def_as_dict(words, i) ==
    LET \* [assign.split("=") for assign in parts]
        PairsOf(parts) == [k \in 1..Len(parts) |-> Split(parts[k], Equals)]
        \* the dict comprehension over the pairs; e is the index of the &end
        DictOfPairs(pairs, e) ==
            IF \E k \in 1..Len(pairs) : Len(pairs[k]) # 2
            THEN [status |-> "BadAssignment", next |-> e + 1, exhausted |-> FALSE]
            ELSE [status |-> "ok", next |-> e + 1, exhausted |-> FALSE,
                  dict |-> DictFromPairs([k \in 1..Len(pairs) |->
                                             <<Strip(pairs[k][1]), Strip(pairs[k][2])>>])]
        \* the words from index i on have their first &end at index e (0: none)
        UpTo(e) ==
            IF e = 0
            THEN [status |-> "EOFInCommand", next |-> Len(words) + 1, exhausted |-> TRUE]
            ELSE DictOfPairs(
                     <<>> \o PairsOf(SelectSeq(
                                 Split(Join(<<SP>>,
                                            [k \in 1..(e - i) |-> Strip(words[i + k - 1].word)]),
                                       Comma),
                                 LAMBDA assign : assign # <<>>)),
                     e)
    IN  UpTo(FindEnd(words, i))

-----------------------------------------------------------------------------
(* reader.py: _read_header                                                 *)

KindOfTag(word) ==
    IF word = ParameterTAG THEN "Parameter"
    ELSE IF word = ArrayTAG THEN "Array"
    ELSE "Column"

\* exhausted: the generator was asked for a word and had none left
HeaderFailure(bytes, words, status, consumed, exhausted) ==
    [status |-> status, consumed |-> consumed, exhausted |-> exhausted,
     pos |-> StreamPos(bytes, words, consumed, exhausted)]

\* what follows the loop when the generator is exhausted: data is None
OnLoopEnd_no_check(bytes, words, definitions, description) ==
    [status |-> "ok",
     version |-> words[1].word,
     definitions |-> _sort_definitions(definitions),
     description |-> description,
     data |-> [mode |-> None],
     consumed |-> Len(words), exhausted |-> TRUE,
     pos |-> StreamPos(bytes, words, Len(words), TRUE)]

OnLoopEnd(bytes, words, definitions, description) ==
    HeaderFailure(bytes, words, "MissingData", Len(words), TRUE)

RECURSIVE HeaderLoop(_, _, _, _, _)

\* a word at command position that is no known tag, once its command is read
OnUnknownToken_continue(bytes, words, next, definitions, description) ==
    HeaderLoop(bytes, words, next, definitions, description)

OnUnknownToken(bytes, words, next, definitions, description) ==
    HeaderFailure(bytes, words, "UnknownToken", next - 1, FALSE)

\* the branch of the loop for &description, with a new Description each time
OnDescription_overwrite(bytes, words, definitions, description, dd) ==
    IF MakeDescription(dd.dict).status # "ok"
    THEN HeaderFailure(bytes, words, MakeDescription(dd.dict).status, dd.next - 1, FALSE)
    ELSE HeaderLoop(bytes, words, dd.next, definitions,
                    Some(MakeDescription(dd.dict).description))

\* the branch of the loop for &description
OnDescription(bytes, words, definitions, description, dd) ==
    IF description # None
    THEN HeaderFailure(bytes, words, "TwoDescriptions", dd.next - 1, FALSE)
    ELSE IF MakeDescription(dd.dict).status # "ok"
    THEN HeaderFailure(bytes, words, MakeDescription(dd.dict).status, dd.next - 1, FALSE)
    ELSE HeaderLoop(bytes, words, dd.next, definitions,
                    Some(MakeDescription(dd.dict).description))

\* the body of the loop for the word at index i, dd being what
\* _get_def_as_dict returned for the words after it
HeaderCommand(bytes, words, i, definitions, description, dd) ==
    IF dd.status # "ok"
    THEN HeaderFailure(bytes, words, dd.status,
                       IF dd.exhausted THEN Len(words) ELSE dd.next - 1, dd.exhausted)
    ELSE IF words[i].word \in {ColumnTAG, ParameterTAG, ArrayTAG}
    THEN IF MakeDefinition(KindOfTag(words[i].word), dd.dict).status # "ok"
         THEN HeaderFailure(bytes, words,
                            MakeDefinition(KindOfTag(words[i].word), dd.dict).status,
                            dd.next - 1, FALSE)
         ELSE HeaderLoop(bytes, words, dd.next,
                         Append(definitions,
                                MakeDefinition(KindOfTag(words[i].word), dd.dict).def),
                         description)
    ELSE IF words[i].word = DescriptionTAG
    THEN OnDescription(bytes, words, definitions, description, dd)
    ELSE IF words[i].word = B("&include")
    THEN HeaderFailure(bytes, words, "NotImplementedError", dd.next - 1, FALSE)
    ELSE IF words[i].word = DataTAG
    THEN IF ~DictHas(dd.dict, B("mode"))
         THEN HeaderFailure(bytes, words, "KeyError", dd.next - 1, FALSE)
         ELSE [status |-> "ok",
               version |-> words[1].word,
               definitions |-> _sort_definitions(definitions),
               description |-> description,
               data |-> [mode |-> DictGet(dd.dict, B("mode"))],
               consumed |-> dd.next - 1, exhausted |-> FALSE,
               pos |-> StreamPos(bytes, words, dd.next - 1, FALSE)]
    ELSE OnUnknownToken(bytes, words, dd.next, definitions, description)

\* the loop "for word in word_gen" with the generator about to yield word
\* number i, and what follows the loop
HeaderLoop(bytes, words, i, definitions, description) ==
    IF i > Len(words)
    THEN OnLoopEnd(bytes, words, definitions, description)
    ELSE HeaderCommand(bytes, words, i, definitions, description,
                       _get_def_as_dict(words, i + 1))

\* _read_header without the assertion on the version
_read_header_any_version(bytes) ==
    LET OfWords(words) ==
            IF words = <<>>
            THEN HeaderFailure(bytes, words, "StopIteration", 0, TRUE)
            ELSE HeaderLoop(bytes, words, 2, <<>>, None)
    IN  OfWords(_gen_words(bytes))

\* _read_header(inbytes) on a stream at offset 0; words is what the generator
\* will yield.  status is "ok" or names the exception raised; pos is the
\* offset of the stream afterwards; consumed is the number of words taken from
\* the generator.
_read_header(bytes) ==
    LET OfWords(words) ==
            IF words = <<>>
            THEN HeaderFailure(bytes, words, "StopIteration", 0, TRUE)
            ELSE IF words[1].word # SDDS1
            THEN HeaderFailure(bytes, words, "AssertionError", 1, FALSE)
            ELSE HeaderLoop(bytes, words, 2, <<>>, None)
    IN  OfWords(_gen_words(bytes))

\* the exception class and message behind each failure status of _read_header
HeaderError(status) ==
    CASE status = "StopIteration" -> <<"StopIteration", "">>
      [] status = "AssertionError" -> <<"AssertionError", "This module is compatible with SDDS v1 only">>
      [] status = "EOFInCommand" -> <<"ValueError", "EOF found while looking for &end tag.">>
      [] status = "BadAssignment" -> <<"ValueError", "values to unpack">>
      [] status = "KeyError" -> <<"KeyError", "">>
      [] status = "TypeError" -> <<"TypeError", "unexpected keyword argument">>
      [] status = "ValueError" -> <<"ValueError", "invalid literal for int()">>
      [] status = "TwoDescriptions" -> <<"ValueError", "Two &description tags found.">>
      [] status = "NotImplementedError" -> <<"NotImplementedError", "">>
      [] status = "UnknownToken" -> <<"ValueError", "Unknown token encountered.">>
      [] status = "MissingData" -> <<"ValueError", "Found end of file while looking for &data tag.">>

-----------------------------------------------------------------------------
(* classes.py: the type registry.  The model covers the integer types and  *)
(* string; float and double are left out.                                  *)

IntTypes == {B("short"), B("long"), B("llong"), B("boolean")}

\* NUMTYPES_SIZES[type_] for the integer types
NUMTYPES_SIZES(type_) ==
    IF type_ = B("short") THEN 2
    ELSE IF type_ = B("long") THEN 4
    ELSE IF type_ = B("llong") THEN 8
    ELSE 1

Reverse(s) == [i \in 1..Len(s) |-> s[Len(s) + 1 - i]]

RECURSIVE UnsignedBE(_)
UnsignedBE(bs) == IF bs = <<>> THEN 0 ELSE 256 * UnsignedBE(SubSeq(bs, 1, Len(bs) - 1)) + bs[Len(bs)]

\* the bitwise complement of each byte
Complement(bs) == [i \in 1..Len(bs) |-> 255 - bs[i]]

\* the signed integer a numpy dtype such as ">i4" or "<i4" reads from its
\* bytes (two's complement)
BytesToInt(bs, byteorder) ==
    LET Signed(be) ==
            IF be # <<>> /\ be[1] >= 128 THEN -UnsignedBE(Complement(be)) - 1
            ELSE UnsignedBE(be)
    IN  Signed(IF byteorder = B("big") THEN bs ELSE Reverse(bs))

RECURSIVE UnsignedToBE(_, _)
UnsignedToBE(u, n) == IF n = 0 THEN <<>> ELSE Append(UnsignedToBE(u \div 256, n - 1), u % 256)

\* np.array(value, dtype=get_dtype_str(type_)).tobytes() for a value in range:
\* get_dtype_str defaults to endianness 'big'
IntToBytes(value, n) ==
    IF value < 0 THEN Complement(UnsignedToBE(-value - 1, n)) ELSE UnsignedToBE(value, n)

Abs(n) == IF n < 0 THEN -n ELSE n

RECURSIVE Product(_, _)
\* np.prod(dims): exact while its magnitude is at most cap, of magnitude
\* cap + 1 and of the right sign beyond; the callers compare it with sizes
\* that cap bounds
Product(dims, cap) ==
    LET Times(h, rest) ==
            IF h = 0 \/ rest = 0 THEN 0
            ELSE IF Abs(h) > cap \/ Abs(rest) > cap \/ Abs(h) * Abs(rest) > cap
            THEN (IF (h < 0) = (rest < 0) THEN cap + 1 ELSE -(cap + 1))
            ELSE h * rest
    IN  IF dims = <<>> THEN 1 ELSE Times(Head(dims), Product(Tail(dims), cap))

-----------------------------------------------------------------------------
(* reader.py: binary data reading.  Every reader takes the stream and its  *)
(* offset p and returns [status, value, pos]: status "ok" or the exception  *)
(* raised, pos the offset afterwards, value present when status is "ok".   *)

\* a [status, value] result as the result of a reader that leaves the stream at p
WithPos(r, p) ==
    IF r.status = "ok" THEN [status |-> "ok", pos |-> p, value |-> r.value]
    ELSE [status |-> r.status, pos |-> p]

\* inbytes.read(n): up to n bytes, all the rest when n is negative
ReadEnd(bytes, p, n) == IF n < 0 \/ n > Len(bytes) - p THEN Len(bytes) ELSE p + n

\* np.frombuffer(inbytes.read(count * NUMTYPES_SIZES[type_]), dtype=...)
_read_bin_numeric(bytes, p, type_, count, byteorder) ==
    LET FromBuffer(buf, e, size) ==
            IF Len(buf) % size # 0
            THEN [status |-> "ValueError", pos |-> e]   \* buffer size must be a multiple of element size
            ELSE [status |-> "ok", pos |-> e,
                  value |-> <<>> \o [k \in 1..(Len(buf) \div size) |->
                                        BytesToInt(SubSeq(buf, (k - 1) * size + 1, k * size),
                                                   byteorder)]]
        ReadUpTo(e) == FromBuffer(SubSeq(bytes, p + 1, e), e, NUMTYPES_SIZES(type_))
    IN  ReadUpTo(IF count < 0 \/ count > Len(bytes) THEN Len(bytes)
                 ELSE ReadEnd(bytes, p, count * NUMTYPES_SIZES(type_)))

\* int(array): only an array of one element converts
ScalarOf(r) ==
    IF r.status # "ok" THEN r
    ELSE IF Len(r.value) # 1 THEN [status |-> "TypeError", pos |-> r.pos]
    ELSE [status |-> "ok", pos |-> r.pos, value |-> r.value[1]]

_read_bin_int(bytes, p, byteorder) ==
    ScalarOf(_read_bin_numeric(bytes, p, B("long"), 1, byteorder))

\* the number of bytes of the UTF-8 sequence that a byte starts, 0 for a
\* byte that starts none
SequenceLen(b) ==
    IF b < 128 THEN 1
    ELSE IF b \in 194..223 THEN 2
    ELSE IF b \in 224..239 THEN 3
    ELSE IF b \in 240..244 THEN 4
    ELSE 0

\* the code point of the UTF-8 sequence of n bytes at offset i of bs
CodePoint(bs, i, n) ==
    IF n = 1 THEN bs[i]
    ELSE IF n = 2 THEN (bs[i] - 192) * 64 + (bs[i + 1] - 128)
    ELSE IF n = 3 THEN (bs[i] - 224) * 4096 + (bs[i + 1] - 128) * 64 + (bs[i + 2] - 128)
    ELSE (bs[i] - 240) * 262144 + (bs[i + 1] - 128) * 4096 + (bs[i + 2] - 128) * 64
             + (bs[i + 3] - 128)

\* bytes.decode(ENCODING) raises no UnicodeDecodeError: every byte that is not
\* a continuation byte starts a complete sequence that is followed by no
\* further continuation byte and is the shortest one of a code point that is
\* no surrogate
Utf8Valid(bs) ==
    /\ bs # <<>> => bs[1] \notin 128..191
    /\ \A i \in 1..Len(bs) :
           bs[i] \in 128..191
           \/ /\ SequenceLen(bs[i]) > 0
              /\ i + SequenceLen(bs[i]) - 1 <= Len(bs)
              /\ \A k \in 1..(SequenceLen(bs[i]) - 1) : bs[i + k] \in 128..191
              /\ (i + SequenceLen(bs[i]) <= Len(bs)) => bs[i + SequenceLen(bs[i])] \notin 128..191
              /\ SequenceLen(bs[i]) = 3
                 => /\ CodePoint(bs, i, 3) >= 2048
                    /\ CodePoint(bs, i, 3) \notin 55296..57343
              /\ SequenceLen(bs[i]) = 4 => CodePoint(bs, i, 4) \in 65536..1114111

\* bytes.decode(ENCODING) of bytes that decode: the code points
Decode(bs) ==
    LET Points(leads) ==
            [k \in 1..Cardinality(leads) |->
                CodePoint(bs, Nth(leads, k), SequenceLen(bs[Nth(leads, k)]))]
    IN  Points({i \in 1..Len(bs) : bs[i] \notin 128..191})

\* struct.unpack(f"{str_len}s", packed_str)[0].decode(ENCODING)
_read_string(bytes, p, str_len, byteorder) ==
    LET Unpack(packed_str, e) ==
            IF str_len < 0 \/ Len(packed_str) # str_len
            THEN [status |-> "struct.error", pos |-> e]
            ELSE IF ~Utf8Valid(packed_str)
            THEN [status |-> "UnicodeDecodeError", pos |-> e]
            ELSE [status |-> "ok", pos |-> e, value |-> Decode(packed_str)]
    IN  Unpack(SubSeq(bytes, p + 1, ReadEnd(bytes, p, str_len)), ReadEnd(bytes, p, str_len))

\* NUMTYPES_CAST[type_](text) for a str
CastText(type_, text) ==
    IF type_ = B("char") THEN [status |-> "ok", value |-> text]
    ELSE IF type_ \in IntTypes
    THEN IF IsIntLiteral(text) THEN [status |-> "ok", value |-> ParseInt(text)]
         ELSE [status |-> "ValueError"]
    ELSE [status |-> "KeyError"]

\* the value of a Parameter with a fixed_value, cast per type
FixedValueOf(definition) ==
    IF definition.type = TypeString
    THEN [status |-> "ok", value |-> definition.fixed_value[1]]
    ELSE CastText(definition.type, definition.fixed_value[1])

\* _read_string(inbytes, str_len, endianness) for the str_len just read
ReadStringOfLen(bytes, str_len, byteorder) ==
    IF str_len.status # "ok" THEN str_len
    ELSE _read_string(bytes, str_len.pos, str_len.value, byteorder)

\* _read_bin_param for a Parameter read from the stream
ReadBinParameter(bytes, p, definition, byteorder) ==
    IF definition.type = TypeString
    THEN ReadStringOfLen(bytes, _read_bin_int(bytes, p, byteorder), byteorder)
    ELSE IF definition.type \notin IntTypes THEN [status |-> "KeyError", pos |-> p]
    ELSE ScalarOf(_read_bin_numeric(bytes, p, definition.type, 1, byteorder))

\* _read_bin_param without its fixed_value branch
_read_bin_param_always_reads(bytes, p, definition, byteorder) ==
    ReadBinParameter(bytes, p, definition, byteorder)

_read_bin_param(bytes, p, definition, byteorder) ==
    IF definition.fixed_value # None
    THEN WithPos(FixedValueOf(definition), p)
    ELSE ReadBinParameter(bytes, p, definition, byteorder)

\* _read_bin_column raises NotImplementedError
_read_bin_column(bytes, p, definition, byteorder) ==
    [status |-> "NotImplementedError", pos |-> p]

\* a list of one more element: first, then the elements of rest
ConsResult(first, rest) ==
    IF rest.status # "ok" THEN rest
    ELSE [status |-> "ok", pos |-> rest.pos, value |-> <<first.value>> \o rest.value]

RECURSIVE ReadInts(_, _, _, _)
\* [_read_bin_int(inbytes, endianness) for _ in range(n)]
ReadInts(bytes, p, n, byteorder) ==
    LET After(first) ==
            IF first.status # "ok" THEN first
            ELSE ConsResult(first, ReadInts(bytes, first.pos, n - 1, byteorder))
    IN  IF n <= 0 THEN [status |-> "ok", pos |-> p, value |-> <<>>]
        ELSE After(_read_bin_int(bytes, p, byteorder))

_read_bin_array_len(bytes, p, num_dims, byteorder) ==
    ReadInts(bytes, p, IF num_dims = None THEN 1 ELSE num_dims[1], byteorder)

RECURSIVE ReadStrings(_, _, _, _)
\* the loop over range(total_len) of _read_bin_array for type string
ReadStrings(bytes, p, n, byteorder) ==
    LET After(first) ==
            IF first.status # "ok" THEN first
            ELSE ConsResult(first, ReadStrings(bytes, first.pos, n - 1, byteorder))
    IN  IF n <= 0 THEN [status |-> "ok", pos |-> p, value |-> <<>>]
        ELSE After(ReadStringOfLen(bytes,
                                   ScalarOf(_read_bin_numeric(bytes, p, B("long"), 1, byteorder)),
                                   byteorder))

\* ndarray.reshape(dims) of a flat array: the extents must multiply to its
\* size; a single extent -1 is inferred.  unknown is the set of the extents
\* given as -1 and known the product of the others.
Reshape(flat, dims) ==
    LET With(unknown, known) ==
            IF \E i \in 1..Len(dims) : dims[i] < -1 THEN [status |-> "ValueError"]
            ELSE IF Cardinality(unknown) > 1 THEN [status |-> "ValueError"]
            ELSE IF Cardinality(unknown) = 1
            THEN IF known = 0 \/ Len(flat) % known # 0 THEN [status |-> "ValueError"]
                 ELSE [status |-> "ok",
                       value |-> [shape |-> [i \in 1..Len(dims) |->
                                                IF dims[i] = -1 THEN Len(flat) \div known
                                                ELSE dims[i]],
                                  flat |-> flat]]
            ELSE IF known # Len(flat) THEN [status |-> "ValueError"]
            ELSE [status |-> "ok", value |-> [shape |-> dims, flat |-> flat]]
    IN  With({i \in 1..Len(dims) : dims[i] = -1},
             Product([i \in 1..Len(dims) |-> IF dims[i] = -1 THEN 1 ELSE dims[i]], Len(flat)))

_read_bin_array(bytes, p, definition, byteorder) ==
    LET \* return str_array
        ListOfStrings(str_array) ==
            IF str_array.status # "ok" THEN str_array
            ELSE [status |-> "ok", pos |-> str_array.pos,
                  value |-> [shape |-> <<Len(str_array.value)>>, flat |-> str_array.value]]
        \* return data.reshape(dims)
        Reshaped(data, dims) ==
            IF data.status # "ok" THEN data ELSE WithPos(Reshape(data.value, dims), data.pos)
        OfLen(lens) ==
            IF lens.status # "ok" THEN lens
            ELSE IF definition.type = TypeString
            THEN ListOfStrings(ReadStrings(bytes, lens.pos, Product(lens.value, Len(bytes)),
                                           byteorder))
            ELSE IF definition.type \notin IntTypes
            THEN [status |-> "KeyError", pos |-> lens.pos]
            ELSE Reshaped(_read_bin_numeric(bytes, lens.pos, definition.type,
                                            Product(lens.value, Len(bytes)), byteorder),
                          lens.value)
    IN  OfLen(_read_bin_array_len(bytes, p, definition.dimensions, byteorder))

\* functs_dict[definition.__class__](inbytes, definition, endianness)
ReadBinDefinition(bytes, p, definition, byteorder) ==
    IF definition.kind = "Parameter" THEN _read_bin_param(bytes, p, definition, byteorder)
    ELSE IF definition.kind = "Array" THEN _read_bin_array(bytes, p, definition, byteorder)
    ELSE _read_bin_column(bytes, p, definition, byteorder)

-----------------------------------------------------------------------------
(* reader.py: ASCII data reading.  The line generator is the list of lines *)
(* and the number c of lines taken from it; the readers return             *)
(* [status, value, pos] with pos the number of lines taken afterwards.     *)

\* the lines of the data section: the rest of the stream split at "\n",
\* without the lines that start with "!"
AsciiText(bytes, p) ==
    SelectSeq(Split(SubSeq(bytes, p + 1, Len(bytes)), NL),
              LAMBDA line : ~StartsWith(line, Bang))

\* _read_ascii_parameter for a Parameter read from the lines
ReadAsciiParameter(lines, c, definition) ==
    IF definition.type = TypeString
    THEN IF c >= Len(lines) THEN [status |-> "StopIteration", pos |-> c]
         ELSE [status |-> "ok", pos |-> c + 1, value |-> lines[c + 1]]
    ELSE IF definition.type \in IntTypes \cup {B("char")}
    THEN IF c >= Len(lines) THEN [status |-> "StopIteration", pos |-> c]
         ELSE WithPos(CastText(definition.type, lines[c + 1]), c + 1)
    ELSE [status |-> "TypeError", pos |-> c]

_read_ascii_parameter(lines, c, definition) ==
    IF definition.fixed_value # None
       /\ definition.type \in {TypeString} \cup IntTypes \cup {B("char")}
    THEN WithPos(FixedValueOf(definition), c)
    ELSE ReadAsciiParameter(lines, c, definition)

RECURSIVE GatherTokens(_, _, _, _)
\* while len(data) != np.prod(dimensions): data += next(ascii_gen).strip().split(" ")
GatherTokens(lines, c, data, total) ==
    IF Len(data) = total THEN [status |-> "ok", pos |-> c, value |-> data]
    ELSE IF c >= Len(lines) THEN [status |-> "StopIteration", pos |-> c]
    ELSE GatherTokens(lines, c + 1, data \o Split(Strip(lines[c + 1]), SP), total)

_read_ascii_array(lines, c, definition) ==
    LET \* the cast of the tokens and the reshape, n lines being taken
        CastTokens(data, dimensions, n) ==
            IF definition.type # TypeString /\ definition.type \notin IntTypes \cup {B("char")}
            THEN [status |-> "KeyError", pos |-> n]
            ELSE IF definition.type # TypeString
                    /\ \E i \in 1..Len(data) : CastText(definition.type, data[i]).status # "ok"
            THEN [status |-> "ValueError", pos |-> n]
            ELSE WithPos(Reshape(<<>> \o [i \in 1..Len(data) |->
                                             IF definition.type = TypeString THEN data[i]
                                             ELSE CastText(definition.type, data[i]).value],
                                 dimensions),
                         n)
        OfGathered(gathered, dimensions) ==
            IF gathered.status # "ok" THEN gathered
            ELSE CastTokens(gathered.value, dimensions, gathered.pos)
        OfDimensions(dimensions) ==
            OfGathered(GatherTokens(lines, c + 1, <<>>,
                                    Product(dimensions, Len(Concat(lines)) + Len(lines))),
                       dimensions)
        \* dimensions = np.array(next(ascii_gen).split(), dtype="int")
        OfExtents(extents) ==
            IF \E i \in 1..Len(extents) : ~IsIntLiteral(extents[i])
            THEN [status |-> "ValueError", pos |-> c + 1]
            ELSE OfDimensions(<<>> \o [i \in 1..Len(extents) |-> ParseInt(extents[i])])
    IN  IF c >= Len(lines) THEN [status |-> "StopIteration", pos |-> c]
        ELSE OfExtents(Words(lines[c + 1]))

\* the branches of the loop of _read_data_ascii; a Column is skipped
ReadAsciiDefinition(lines, c, definition) ==
    IF definition.kind = "Parameter" THEN _read_ascii_parameter(lines, c, definition)
    ELSE IF definition.kind = "Array" THEN _read_ascii_array(lines, c, definition)
    ELSE [status |-> "skipped", pos |-> c]

-----------------------------------------------------------------------------
(* reader.py: _get_endianness                                              *)

RECURSIVE ScanEndianness(_, _, _)
\* the loop over inbytes.readline().decode(ENCODING) from offset p
ScanEndianness(bytes, p, native) ==
    LET Line(e) ==
            IF ~Utf8Valid(SubSeq(bytes, p + 1, e)) THEN [status |-> "UnicodeDecodeError"]
            ELSE IF Strip(SubSeq(bytes, p + 1, e)) = B("!# big-endian")
            THEN [status |-> "ok", value |-> B("big")]
            ELSE IF Strip(SubSeq(bytes, p + 1, e)) = B("!# little-endian")
            THEN [status |-> "ok", value |-> B("little")]
            ELSE ScanEndianness(bytes, e, native)
    IN  IF p >= Len(bytes) THEN [status |-> "ok", value |-> native]
        ELSE Line(LineEnd(bytes, p))

\* native is sys.byteorder; the stream is left at offset 0
_get_endianness(bytes, native) == ScanEndianness(bytes, 0, native)

-----------------------------------------------------------------------------
(* writer.py.  The writers return [status, bytes, fields]: status "ok" or  *)
(* the exception raised, bytes what reached the file, fields the names of  *)
(* the definitions whose payload fields were written, in order.            *)

RECURSIVE Encode(_)
\* str.encode(ENCODING): one byte below 128, two below 2048, three below
\* 65536, four from there on
Encode(string) ==
    IF string = <<>> THEN <<>>
    ELSE (IF Head(string) < 128 THEN <<Head(string)>>
          ELSE IF Head(string) < 2048
          THEN <<192 + (Head(string) \div 64), 128 + (Head(string) % 64)>>
          ELSE IF Head(string) < 65536
          THEN <<224 + (Head(string) \div 4096), 128 + ((Head(string) \div 64) % 64),
                 128 + (Head(string) % 64)>>
          ELSE <<240 + (Head(string) \div 262144), 128 + ((Head(string) \div 4096) % 64),
                 128 + ((Head(string) \div 64) % 64), 128 + (Head(string) % 64)>>)
         \o Encode(Tail(string))

\* struct.pack(f">{n}s", bs): bs cut or zero-padded to n bytes
PackS(n, bs) == [i \in 1..n |-> IF i <= Len(bs) THEN bs[i] ELSE 0]

_write_string(string) == IntToBytes(Len(string), 4) \o PackS(Len(string), Encode(string))

\* value % NUMTYPES_ascii[type_]: "%i" for the integer types, "%s" for string
NUMTYPES_ascii(type_, value) == IF type_ = TypeString THEN value ELSE IntToStr(value)

\* f"{value}" of a field of a definition or description
FieldText(f, optional) ==
    IF optional = None THEN B("None")
    ELSE IF f \in IntFields THEN IntToStr(optional[1])
    ELSE optional[1]

KeyValue(f, text) == B(f) \o B("=") \o text

TagOfKind(kind) ==
    IF kind = "Parameter" THEN ParameterTAG
    ELSE IF kind = "Array" THEN ArrayTAG
    ELSE ColumnTAG

\* _sdds_def_as_str for a Parameter, Array or Column
_sdds_def_as_str(definition) ==
    LET Thing(key) ==
            KeyValue(key, IF key \in RequiredFields THEN definition[key]
                          ELSE FieldText(key, definition[key]))
    IN  TagOfKind(definition.kind) \o B(" ")
            \o Join(B(", "), [i \in 1..Len(FieldSeq(definition.kind)) |->
                                Thing(FieldSeq(definition.kind)[i])])
            \o B(" &end\n")

\* _sdds_def_as_str for a Description
DescriptionAsStr(description) ==
    DescriptionTAG \o B(" ")
        \o Join(B(", "), <<KeyValue("text", FieldText("text", description.text)),
                           KeyValue("contents", FieldText("contents", description.contents))>>)
        \o B(" &end\n")

\* a header writer that leaves the marker comment out in every mode
_write_header_unmarked(file) ==
    B("SDDS1\n")
        \o (IF file.description # None THEN DescriptionAsStr(file.description[1]) ELSE <<>>)
        \o Concat([i \in 1..Len(file.definitions) |-> _sdds_def_as_str(file.definitions[i][2])])
        \o B("&data mode=") \o file.mode \o B(", &end\n")

\* _write_header: the header text; names is DictKeys(sdds_file.definitions)
_write_header(file) ==
    B("SDDS1\n")
        \o (IF file.mode = B("binary") THEN B("!# big-endian\n") ELSE <<>>)
        \o (IF file.description # None THEN DescriptionAsStr(file.description[1]) ELSE <<>>)
        \o Concat([i \in 1..Len(file.definitions) |-> _sdds_def_as_str(file.definitions[i][2])])
        \o B("&data mode=") \o file.mode \o B(", &end\n")

\* the (definition, value) pairs of the definitions of one kind, in the order
\* of names, as sdds_file[name] gives them; page 0 stands for a single-page
\* document.  A third component tells whether sdds_file.values holds the name
\* (sdds_file[name] raises KeyError otherwise).
ItemsOfKind(file, names, kind, page) ==
    LET Items(picked) ==
            <<>> \o [i \in 1..Len(picked) |->
                        <<DictGet(file.definitions, picked[i]),
                          IF ~DictHas(file.values, picked[i]) THEN None
                          ELSE IF page = 0 THEN DictGet(file.values, picked[i])
                          ELSE DictGet(file.values, picked[i])[page],
                          DictHas(file.values, picked[i])>>]
    IN  Items(SelectSeq(names, LAMBDA name : DictGet(file.definitions, name).kind = kind))

_get_row_count(file, names) ==
    LET RowCount(col_data) ==
            IF \E i \in 1..Len(col_data) : ~col_data[i][3] THEN [status |-> "KeyError"]
            ELSE [status |-> "ok",
                  value |-> IF Len(col_data) > 0 THEN col_data[1][2].shape[1] ELSE 0]
    IN  RowCount(ItemsOfKind(file, names, "Column", IF file.npages > 1 THEN 1 ELSE 0))

\* one scalar of a parameter or a column, in binary
WriteScalar(type_, value) ==
    IF type_ = TypeString THEN [status |-> "ok", bytes |-> _write_string(value)]
    ELSE IF type_ \in {B("char"), B("character")} THEN [status |-> "struct.error", bytes |-> <<>>]
    ELSE IF type_ \notin IntTypes THEN [status |-> "KeyError", bytes |-> <<>>]
    ELSE [status |-> "ok", bytes |-> IntToBytes(value, NUMTYPES_SIZES(type_))]

Failed(status) == [status |-> status, bytes |-> <<>>, fields |-> <<>>]

\* what was written by a step and by what ran after it, unless the step failed
Then(one, rest) ==
    IF one.status # "ok" THEN one
    ELSE [status |-> rest.status, bytes |-> one.bytes \o rest.bytes,
          fields |-> one.fields \o rest.fields]

Wrote(bytes, fields) == [status |-> "ok", bytes |-> bytes, fields |-> fields]

RECURSIVE _write_parameters(_)
_write_parameters(param_gen) ==
    LET Written(name, one) ==
            IF one.status # "ok" THEN Failed(one.status) ELSE Wrote(one.bytes, <<name>>)
    IN  IF param_gen = <<>> THEN Wrote(<<>>, <<>>)
        ELSE IF ~Head(param_gen)[3] THEN Failed("KeyError")
        ELSE Then(Written(Head(param_gen)[1].name,
                          WriteScalar(Head(param_gen)[1].type, Head(param_gen)[2])),
                  _write_parameters(Tail(param_gen)))

\* get_dimensions_from_array(value) for an ndarray of one or more axes:
\* value[0] raises IndexError as soon as an extent is 0
get_dimensions_from_array(value) ==
    IF \E i \in 1..Len(value.shape) : value.shape[i] = 0
    THEN [status |-> "IndexError"]
    ELSE [status |-> "ok", value |-> value.shape]

RECURSIVE WriteStrings(_)
\* for string in value: _write_string(string, outbytes)
WriteStrings(strings) ==
    IF strings = <<>> THEN <<>> ELSE _write_string(Head(strings)) \o WriteStrings(Tail(strings))

\* np.array(elements_per_dim, dtype=get_dtype_str("long")).tobytes()
ExtentsBytes(elements_per_dim) ==
    Concat([i \in 1..Len(elements_per_dim) |-> IntToBytes(elements_per_dim[i], 4)])

RECURSIVE _write_arrays(_)
_write_arrays(array_gen) ==
    LET Written(array_def, value, elements_per_dim) ==
            IF elements_per_dim.status # "ok" THEN Failed(elements_per_dim.status)
            ELSE IF array_def.type = TypeString
            THEN Wrote(ExtentsBytes(elements_per_dim.value) \o WriteStrings(value.flat),
                       <<array_def.name>>)
            ELSE IF array_def.type \notin IntTypes
            THEN [status |-> "KeyError", bytes |-> ExtentsBytes(elements_per_dim.value),
                  fields |-> <<>>]
            ELSE Wrote(ExtentsBytes(elements_per_dim.value)
                         \o Concat([i \in 1..Len(value.flat) |->
                                       IntToBytes(value.flat[i],
                                                  NUMTYPES_SIZES(array_def.type))]),
                       <<array_def.name>>)
    IN  IF array_gen = <<>> THEN Wrote(<<>>, <<>>)
        ELSE IF ~Head(array_gen)[3] THEN Failed("KeyError")
        ELSE Then(Written(Head(array_gen)[1], Head(array_gen)[2],
                          get_dimensions_from_array(Head(array_gen)[2])),
                  _write_arrays(Tail(array_gen)))

\* the length of the shortest column: len(list(zip(*col_vals)))
RowsZipped(col_data) ==
    IF col_data = <<>> THEN 0
    ELSE Min({col_data[j][2].shape[1] : j \in 1..Len(col_data)})

RECURSIVE WriteCells(_, _, _, _)
\* the cells of the rows from row i on, row by row, in binary, for rows rows;
\* an exception in a cell ends the writing and is swallowed
WriteCells(col_data, rows, i, j) ==
    LET CellThen(name, one, rest) ==
            IF one.status # "ok" THEN Wrote(<<>>, <<>>)
            ELSE Then(Wrote(one.bytes, <<name>>), rest)
    IN  IF i > rows THEN Wrote(<<>>, <<>>)
        ELSE IF j > Len(col_data) THEN WriteCells(col_data, rows, i + 1, 1)
        ELSE CellThen(col_data[j][1].name,
                      WriteScalar(col_data[j][1].type, col_data[j][2].flat[i]),
                      WriteCells(col_data, rows, i, j + 1))

\* _write_columns: the list col_data is built before the call, which is where
\* a missing value raises
_write_columns(col_data) ==
    IF \E j \in 1..Len(col_data) : ~col_data[j][3] THEN Failed("KeyError")
    ELSE WriteCells(col_data, RowsZipped(col_data), 1, 1)

\* the parameters, arrays and columns of one page
WritePage(file, names, page) ==
    Then(_write_parameters(ItemsOfKind(file, names, "Parameter", page)),
         Then(_write_arrays(ItemsOfKind(file, names, "Array", page)),
              _write_columns(ItemsOfKind(file, names, "Column", page))))

RECURSIVE WritePages(_, _, _, _)
WritePages(file, names, nrow, page) ==
    IF page > file.npages THEN Wrote(<<>>, <<>>)
    ELSE Then(Wrote(IntToBytes(nrow, 4), <<>>),
              Then(WritePage(file, names, page), WritePages(file, names, nrow, page + 1)))

_write_data(names, file) ==
    LET OfRowCount(nrow) ==
            IF nrow.status # "ok" THEN Failed(nrow.status)
            ELSE IF file.npages > 1 THEN WritePages(file, names, nrow.value, 1)
            ELSE Then(Wrote(IntToBytes(nrow.value, 4), <<>>), WritePage(file, names, 0))
    IN  OfRowCount(_get_row_count(file, names))

RECURSIVE _write_ascii_parameters(_)
_write_ascii_parameters(param_gen) ==
    IF param_gen = <<>> THEN Wrote(<<>>, <<>>)
    ELSE IF ~Head(param_gen)[3] THEN Failed("KeyError")
    ELSE IF Head(param_gen)[1].type \notin IntTypes \cup {TypeString} THEN Failed("KeyError")
    ELSE Then(Wrote(NUMTYPES_ascii(Head(param_gen)[1].type, Head(param_gen)[2]) \o <<NL>>,
                    <<Head(param_gen)[1].name>>),
              _write_ascii_parameters(Tail(param_gen)))

\* the line of the extents of an array
ShapeLine(shape) ==
    Concat([i \in 1..Len(shape) |-> <<SP>> \o IntToStr(shape[i])]) \o <<NL>>

RECURSIVE _write_ascii_arrays(_)
_write_ascii_arrays(array_gen) ==
    LET Written(array_def, value, elements_per_dim) ==
            IF elements_per_dim.status # "ok" THEN Failed(elements_per_dim.status)
            ELSE IF array_def.type \notin IntTypes \cup {TypeString}
            THEN [status |-> "KeyError", bytes |-> ShapeLine(elements_per_dim.value),
                  fields |-> <<>>]
            ELSE Wrote(ShapeLine(elements_per_dim.value)
                         \o Concat([i \in 1..Len(value.flat) |->
                                       <<SP>> \o NUMTYPES_ascii(array_def.type, value.flat[i])])
                         \o <<NL>>,
                       <<array_def.name>>)
    IN  IF array_gen = <<>> THEN Wrote(<<>>, <<>>)
        ELSE IF ~Head(array_gen)[3] THEN Failed("KeyError")
        ELSE Then(Written(Head(array_gen)[1], Head(array_gen)[2],
                          get_dimensions_from_array(Head(array_gen)[2])),
                  _write_ascii_arrays(Tail(array_gen)))

RECURSIVE WriteAsciiCells(_, _, _, _)
\* the rows from row i on, one line per row, for rows rows; an exception ends
\* the writing and is swallowed
WriteAsciiCells(col_data, rows, i, j) ==
    IF i > rows THEN Wrote(<<>>, <<>>)
    ELSE IF j > Len(col_data)
    THEN Then(Wrote(<<NL>>, <<>>), WriteAsciiCells(col_data, rows, i + 1, 1))
    ELSE IF col_data[j][1].type \notin IntTypes \cup {TypeString} THEN Wrote(<<>>, <<>>)
    ELSE Then(Wrote(<<SP>> \o NUMTYPES_ascii(col_data[j][1].type, col_data[j][2].flat[i]),
                    <<col_data[j][1].name>>),
              WriteAsciiCells(col_data, rows, i, j + 1))

\* _write_ascii_columns: without columns len(col_vals[0]) raises IndexError,
\* which is swallowed
_write_ascii_columns(col_data) ==
    IF \E j \in 1..Len(col_data) : ~col_data[j][3] THEN Failed("KeyError")
    ELSE IF col_data = <<>> THEN Wrote(<<>>, <<>>)
    ELSE Then(Wrote(<<SP>> \o IntToStr(col_data[1][2].shape[1]) \o <<NL>>, <<>>),
              WriteAsciiCells(col_data, RowsZipped(col_data), 1, 1))

WriteAsciiPage(file, names, page) ==
    Then(_write_ascii_parameters(ItemsOfKind(file, names, "Parameter", page)),
         Then(_write_ascii_arrays(ItemsOfKind(file, names, "Array", page)),
              _write_ascii_columns(ItemsOfKind(file, names, "Column", page))))

RECURSIVE WriteAsciiPages(_, _, _)
WriteAsciiPages(file, names, page) ==
    IF page > file.npages THEN Wrote(<<>>, <<>>)
    ELSE Then(Wrote(B("! page number ") \o IntToStr(page) \o <<NL>>, <<>>),
              Then(WriteAsciiPage(file, names, page), WriteAsciiPages(file, names, page + 1)))

\* _write_ascii_data
_write_ascii_data(names, file) ==
    IF file.npages > 1 THEN WriteAsciiPages(file, names, 1)
    ELSE WriteAsciiPage(file, names, 0)

\* setattr(obj, name, value)
SetAttr(obj, name, value) ==
    [f \in DOMAIN obj \cup {name} |-> IF f = name THEN value ELSE obj[f]]

\* the Document attribute npages that the writers read: the number of pages,
\* 1 for a Document whose values are not per-page sequences
WithPages(file, npages) == SetAttr(file, "npages", npages)

\* write_sdds(sdds_file, output_path, mode): [status, bytes, fields], the
\* Document as the call leaves it and the length of the header
write_sdds(file, mode_arg) ==
    LET Result(with_mode, head, written) ==
            [status |-> written.status, bytes |-> written.bytes, fields |-> written.fields,
             file |-> with_mode, header_len |-> Len(head.bytes)]
        AfterHeader(with_mode, names, head) ==
            Result(with_mode, head,
                   IF with_mode.mode = B("binary")
                   THEN Then(head, _write_data(names, with_mode))
                   ELSE IF with_mode.mode = B("ascii")
                   THEN Then(head, _write_ascii_data(names, with_mode))
                   ELSE head)
        WithMode(with_mode) ==
            AfterHeader(with_mode, DictKeys(with_mode.definitions),
                        Wrote(_write_header(with_mode), <<>>))
    IN  WithMode(SetAttr(file, "mode",
                         IF mode_arg # None THEN mode_arg[1]
                         ELSE IF "mode" \in DOMAIN file THEN file.mode
                         ELSE B("binary")))

-----------------------------------------------------------------------------
(* write_sdds and read_sdds as steps.  pc is the position of the call:     *)
(* "write_call", then "read_call", "read_header", "read_data",             *)
(* "decode_binary" or "decode_ascii" (one step per definition), and        *)
(* "read_done"; "write_failed" and "read_failed" when an exception left    *)
(* the call, with the exception in result.                                 *)

Raised(status) == [status |-> status]

\* write_sdds(sdds_file, output_path, mode); the file written is then the one
\* read_sdds opens
WriteSdds ==
    /\ pc = "write_call"
    /\ \E w \in {write_sdds(sdds_file, mode)} :
           /\ sdds_file' = w.file
           /\ outbytes' = w.bytes
           /\ written_fields' = w.fields
           /\ inbytes' = w.bytes
           /\ pc' = IF w.status = "ok" THEN "read_call" ELSE "write_failed"
           /\ result' = IF w.status = "ok" THEN result ELSE Raised(w.status)
    /\ UNCHANGED <<orig_defs, definitions_list, values_list, mode, pos, sys_byteorder,
                   endianness, header, ascii_text, cursor, def_index, data_list,
                   read_fields>>

\* read_sdds: if endianness is None: endianness = _get_endianness(inbytes)
GetEndianness ==
    /\ pc = "read_call"
    /\ pos' = 0
    /\ IF endianness # None
       THEN /\ pc' = "read_header"
            /\ UNCHANGED <<endianness, result>>
       ELSE \E found \in {_get_endianness(inbytes, sys_byteorder)} :
                IF found.status = "ok"
                THEN /\ endianness' = Some(found.value)
                     /\ pc' = "read_header"
                     /\ result' = result
                ELSE /\ pc' = "read_failed"
                     /\ result' = Raised(found.status)
                     /\ endianness' = endianness
    /\ UNCHANGED <<orig_defs, definitions_list, values_list, sdds_file, mode, outbytes,
                   written_fields, inbytes, sys_byteorder, header, ascii_text, cursor,
                   def_index, data_list, read_fields>>

\* read_sdds: version, definition_list, description, data = _read_header(inbytes)
ReadHeader ==
    /\ pc = "read_header"
    /\ header' = _read_header(inbytes)
    /\ pos' = header'.pos
    /\ pc' = IF header'.status = "ok" THEN "read_data" ELSE "read_failed"
    /\ result' = IF header'.status = "ok" THEN result ELSE Raised(header'.status)
    /\ UNCHANGED <<orig_defs, definitions_list, values_list, sdds_file, mode, outbytes,
                   written_fields, inbytes, sys_byteorder, endianness, ascii_text, cursor,
                   def_index, data_list, read_fields>>

\* _read_data up to the loop over the definitions: the row count in binary
\* mode, the rest of the stream split into lines in ascii mode
ReadDataBegin ==
    /\ pc = "read_data"
    /\ IF header.data.mode = B("binary")
       THEN \E row_count \in {_read_bin_int(inbytes, pos, endianness[1])} :
                /\ pos' = row_count.pos
                /\ cursor' = row_count.pos
                /\ ascii_text' = ascii_text
                /\ pc' = IF row_count.status = "ok" THEN "decode_binary" ELSE "read_failed"
                /\ result' = IF row_count.status = "ok" THEN result
                             ELSE Raised(row_count.status)
       ELSE IF header.data.mode = B("ascii")
       THEN /\ ascii_text' = AsciiText(inbytes, pos)
            /\ pos' = Len(inbytes)
            /\ cursor' = 0
            /\ pc' = "decode_ascii"
            /\ result' = result
       ELSE /\ pc' = "read_failed"
            /\ result' = Raised("ValueError")   \* Unsupported data mode
            /\ UNCHANGED <<pos, cursor, ascii_text>>
    /\ def_index' = 0
    /\ data_list' = <<>>
    /\ read_fields' = <<>>
    /\ UNCHANGED <<orig_defs, definitions_list, values_list, sdds_file, mode, outbytes,
                   written_fields, inbytes, sys_byteorder, endianness, header>>

\* one definition of the comprehension of _read_data_binary
DecodeBinary ==
    /\ pc = "decode_binary"
    /\ def_index < Len(header.definitions)
    /\ \E definition \in {header.definitions[def_index + 1]} :
       \E r \in {ReadBinDefinition(inbytes, cursor, definition, endianness[1])} :
           /\ cursor' = r.pos
           /\ pos' = r.pos
           /\ read_fields' = IF r.pos # cursor THEN Append(read_fields, definition.name)
                             ELSE read_fields
           /\ IF r.status = "ok"
              THEN /\ data_list' = Append(data_list, r.value)
                   /\ def_index' = def_index + 1
                   /\ UNCHANGED <<pc, result>>
              ELSE /\ pc' = "read_failed"
                   /\ result' = Raised(r.status)
                   /\ UNCHANGED <<data_list, def_index>>
    /\ UNCHANGED <<orig_defs, definitions_list, values_list, sdds_file, mode, outbytes,
                   written_fields, inbytes, sys_byteorder, endianness, header, ascii_text>>

\* one definition of the loop of _read_data_ascii; a Column appends nothing
DecodeAscii ==
    /\ pc = "decode_ascii"
    /\ def_index < Len(header.definitions)
    /\ \E definition \in {header.definitions[def_index + 1]} :
       \E r \in {ReadAsciiDefinition(ascii_text, cursor, definition)} :
           /\ cursor' = r.pos
           /\ read_fields' = IF r.pos # cursor THEN Append(read_fields, definition.name)
                             ELSE read_fields
           /\ IF r.status \in {"ok", "skipped"}
              THEN /\ data_list' = IF r.status = "ok" THEN Append(data_list, r.value)
                                   ELSE data_list
                   /\ def_index' = def_index + 1
                   /\ UNCHANGED <<pc, result>>
              ELSE /\ pc' = "read_failed"
                   /\ result' = Raised(r.status)
                   /\ UNCHANGED <<data_list, def_index>>
    /\ UNCHANGED <<orig_defs, definitions_list, values_list, sdds_file, mode, outbytes,
                   written_fields, inbytes, pos, sys_byteorder, endianness, header,
                   ascii_text>>

\* read_sdds: return SddsFile(version, description, definition_list, data_list)
ReturnSddsFile ==
    /\ pc \in {"decode_binary", "decode_ascii"}
    /\ def_index = Len(header.definitions)
    /\ result' = SddsFile__init__(header.version, header.description,
                                  header.definitions, data_list)
    /\ pc' = IF result'.status = "ok" THEN "read_done" ELSE "read_failed"
    /\ UNCHANGED <<orig_defs, definitions_list, values_list, io_vars>>

-----------------------------------------------------------------------------
(* Specification SpecSort: _sort_definitions on every short list           *)

MaxSortDefs == 4

SeqsUpTo(S, n) == UNION {[1..k -> S] : k \in 0..n}

SortDefs ==
    {Definition(k, Names[i], TypeLong, NoOpts) : k \in {"Parameter", "Array", "Column"}, i \in 1..2}

SortInit ==
    /\ pc = "sort_call"
    /\ orig_defs \in SeqsUpTo(SortDefs, MaxSortDefs)
    /\ definitions_list = <<>>
    /\ values_list = <<>>
    /\ sdds_file = Unset
    /\ mode = None
    /\ outbytes = <<>>
    /\ written_fields = <<>>
    /\ inbytes = <<>>
    /\ pos = 0
    /\ sys_byteorder = B("little")
    /\ endianness = None
    /\ header = Unset
    /\ ascii_text = <<>>
    /\ cursor = 0
    /\ def_index = 0
    /\ data_list = <<>>
    /\ read_fields = <<>>
    /\ result = Unset

SortDefinitions ==
    /\ pc = "sort_call"
    /\ pc' = "sort_done"
    /\ result' = _sort_definitions(orig_defs)
    /\ UNCHANGED <<orig_defs, definitions_list, values_list, io_vars>>

SpecSort == SortInit /\ [][SortDefinitions]_vars

KindRank(k) == IF k = "Parameter" THEN 1 ELSE IF k = "Array" THEN 2 ELSE 3

\* the number of elements of kind k among the first n of s
CountKind(s, k, n) == Cardinality({j \in 1..n : s[j].kind = k})

\* C1: _sort_definitions returns the elements of its input, Parameters before
\* Arrays before Columns, and the m-th element of a kind in the output is the
\* m-th element of that kind in the input.
C1_SortGroupsStably ==
    pc = "sort_done" =>
        /\ Len(result) = Len(orig_defs)
        /\ \A i, j \in 1..Len(result) :
              i < j => KindRank(result[i].kind) <= KindRank(result[j].kind)
        /\ \A i \in 1..Len(result) :
              \E p \in 1..Len(orig_defs) :
                  /\ orig_defs[p] = result[i]
                  /\ CountKind(orig_defs, result[i].kind, p)
                        = CountKind(result, result[i].kind, i)

\* an interleaved input as in test_sort_defs: array, column, parameter, parameter
C1_Witness ==
    /\ pc = "sort_done"
    /\ Len(orig_defs) = 4
    /\ orig_defs[1].kind = "Array" /\ orig_defs[2].kind = "Column"
    /\ orig_defs[3].kind = "Parameter" /\ orig_defs[4].kind = "Parameter"
    /\ orig_defs[3].name # orig_defs[4].name
    /\ result = <<orig_defs[3], orig_defs[4], orig_defs[1], orig_defs[2]>>

-----------------------------------------------------------------------------
(* Specification SpecCtor: SddsFile.__init__ on every pair of short lists  *)

MaxCtorDefs == 3

CtorDefs ==
    {Definition("Parameter", Names[i], TypeLong, NoOpts) : i \in 1..2}
        \cup {Definition("Array", Names[1], TypeLong, NoOpts)}

CtorInit ==
    /\ pc = "ctor_call"
    /\ definitions_list \in SeqsUpTo(CtorDefs, MaxCtorDefs)
    /\ values_list \in SeqsUpTo({1, 2}, MaxCtorDefs)
    /\ orig_defs = <<>>
    /\ sdds_file = Unset
    /\ mode = None
    /\ outbytes = <<>>
    /\ written_fields = <<>>
    /\ inbytes = <<>>
    /\ pos = 0
    /\ sys_byteorder = B("little")
    /\ endianness = None
    /\ header = Unset
    /\ ascii_text = <<>>
    /\ cursor = 0
    /\ def_index = 0
    /\ data_list = <<>>
    /\ read_fields = <<>>
    /\ result = Unset

\* sdds_file = SddsFile(version, description, definitions_list, values_list)
Construct ==
    /\ pc = "ctor_call"
    /\ pc' = "ctor_done"
    /\ result' = SddsFile__init__(SDDS1, None, definitions_list, values_list)
    /\ sdds_file' = IF result'.status = "ok" THEN result'.self ELSE sdds_file
    /\ UNCHANGED <<orig_defs, definitions_list, values_list, mode, outbytes,
                   written_fields, inbytes, pos, sys_byteorder, endianness, header, ascii_text,
                   cursor, def_index, data_list, read_fields>>

SpecCtor == CtorInit /\ [][Construct]_vars

\* C4: constructing an SddsFile from a list in which two definitions have the
\* same name raises the duplicate-name ValueError; no object is produced and
\* neither the definitions nor the values mapping has been built.
C4_DuplicateNamesRejected ==
    (/\ pc = "ctor_done"
     /\ \E i, j \in 1..Len(definitions_list) :
            i # j /\ definitions_list[i].name = definitions_list[j].name)
    => /\ result.status = "ValueError"
       /\ sdds_file = Unset
       /\ "definitions" \notin DOMAIN result.self
       /\ "values" \notin DOMAIN result.self

\* two Parameters of the same name, as in test_duplicated_entries
C4_Witness ==
    /\ pc = "ctor_done"
    /\ Len(definitions_list) = 2
    /\ definitions_list[1].kind = "Parameter" /\ definitions_list[2].kind = "Parameter"
    /\ definitions_list[1].name = definitions_list[2].name
    /\ Len(values_list) = 2
    /\ result.status = "ValueError"

-----------------------------------------------------------------------------
(* Specification SpecRoundTrip: write_sdds on a single-page Document, then *)
(* read_sdds on the file written                                           *)

MaxRoundTripDefs == 2

Array1D(flat) == [shape |-> <<Len(flat)>>, flat |-> flat]

\* the definitions a slot of the Document can hold under a name, each with a
\* value of its type; a Parameter with a fixed_value holds that value
RoundTripItems(name) ==
    {<<Definition("Parameter", name, TypeLong, NoOpts), 7>>,
     <<Definition("Parameter", name, TypeLong, NoOpts), -2>>,
     <<Definition("Parameter", name, TypeLong, [fixed_value |-> Some(B("5"))]), 5>>,
     <<Definition("Parameter", name, TypeString, NoOpts), B("hi")>>,
     <<Definition("Parameter", name, TypeString, [fixed_value |-> Some(B("ab"))]), B("ab")>>,
     <<Definition("Array", name, TypeLong, NoOpts), Array1D(<<3, -4>>)>>,
     <<Definition("Array", name, TypeLong, [dimensions |-> Some(2)]),
       [shape |-> <<1, 2>>, flat |-> <<8, 9>>]>>,
     <<Definition("Array", name, TypeString, NoOpts), Array1D(<<B("x"), B("yz")>>)>>,
     <<Definition("Column", name, TypeLong, NoOpts), Array1D(<<1, 2>>)>>,
     <<Definition("Column", name, TypeString, NoOpts), Array1D(<<B("p"), B("q")>>)>>}

\* SddsFile("SDDS1", None, definitions, values) for the items given
DocumentOf(items) ==
    WithPages(SddsFile__init__(SDDS1, None,
                               [i \in 1..Len(items) |-> items[i][1]],
                               [i \in 1..Len(items) |-> items[i][2]]).self, 1)

RoundTripDocuments ==
    UNION {{DocumentOf(items) :
                items \in {f \in [1..k -> UNION {RoundTripItems(Names[i]) : i \in 1..k}] :
                              \A i \in 1..k : f[i][1].name = Names[i]}}
           : k \in 0..MaxRoundTripDefs}

RoundTripInit ==
    /\ pc = "write_call"
    /\ sdds_file \in RoundTripDocuments
    /\ mode \in {Some(B("binary")), Some(B("ascii"))}
    /\ sys_byteorder \in {B("little"), B("big")}
    /\ endianness = None
    /\ orig_defs = <<>>
    /\ definitions_list = <<>>
    /\ values_list = <<>>
    /\ outbytes = <<>>
    /\ written_fields = <<>>
    /\ inbytes = <<>>
    /\ pos = 0
    /\ header = Unset
    /\ ascii_text = <<>>
    /\ cursor = 0
    /\ def_index = 0
    /\ data_list = <<>>
    /\ read_fields = <<>>
    /\ result = Unset

RoundTripNext ==
    \/ WriteSdds
    \/ GetEndianness
    \/ ReadHeader
    \/ ReadDataBegin
    \/ DecodeBinary
    \/ DecodeAscii
    \/ ReturnSddsFile

SpecRoundTrip == RoundTripInit /\ [][RoundTripNext]_vars

\* the Parameter with a fixed_value that the data readers are about to decode
DecodingFixedParameter ==
    /\ pc \in {"decode_binary", "decode_ascii"}
    /\ def_index < Len(header.definitions)
    /\ header.definitions[def_index + 1].kind = "Parameter"
    /\ header.definitions[def_index + 1].fixed_value # None

\* int(fixed_value) for the integer types, the text itself for a string
CastOfFixedValue(definition) ==
    IF definition.type = TypeString THEN definition.fixed_value[1]
    ELSE ParseInt(definition.fixed_value[1])

\* C5: the step that decodes a Parameter whose fixed_value is set leaves the
\* data-section cursor (byte offset in binary mode, lines taken in ascii mode)
\* and the stream offset where they were, and the value it appends is the
\* fixed_value cast per the parameter's type.
C5_FixedValueNotRead ==
    [][DecodingFixedParameter
         => /\ cursor' = cursor
            /\ pos' = pos
            /\ read_fields' = read_fields
            /\ def_index' = def_index + 1
            /\ data_list' = Append(data_list,
                                   CastOfFixedValue(header.definitions[def_index + 1]))]_vars

\* binary mode: a fixed-value long parameter has just been decoded as the
\* first definition, and the cursor still is right after the row count
C5_Witness ==
    /\ pc = "decode_binary"
    /\ def_index = 1
    /\ header.definitions[1].kind = "Parameter"
    /\ header.definitions[1].fixed_value = Some(B("5"))
    /\ data_list = <<5>>
    /\ cursor = header.pos + 4
    /\ Len(inbytes) > cursor

\* the Document without its Parameters that have a fixed_value
WithoutFixedValues(file) ==
    LET fixed(name) == /\ DictGet(file.definitions, name).kind = "Parameter"
                       /\ DictGet(file.definitions, name).fixed_value # None
    IN  [file EXCEPT !.definitions = SelectSeq(file.definitions, LAMBDA kv : ~fixed(kv[1])),
                     !.values = SelectSeq(file.values, LAMBDA kv : ~fixed(kv[1]))]

\* what write_sdds wrote after the header
DataSection(written) == SubSeq(written.bytes, written.header_len + 1, Len(written.bytes))

\* C6: the data section write_sdds writes for a Document equals the data
\* section it writes for the same Document without its fixed-value
\* Parameters: those contribute no bytes and no line.
C6_FixedValueNotWritten ==
    pc = "read_call"
    => DataSection(write_sdds(sdds_file, mode))
           = DataSection(write_sdds(WithoutFixedValues(sdds_file), mode))

\* C7: the i-th field write_sdds wrote to the data section and the i-th field
\* read_sdds read from it belong to the same definition, for every order of
\* the definitions in the Document.
C7_FieldOrderAgrees ==
    pc \in {"decode_binary", "decode_ascii", "read_done", "read_failed"}
    => \A i \in 1..Len(read_fields) :
           i <= Len(written_fields) /\ read_fields[i] = written_fields[i]

HasColumns(file) == \E i \in 1..Len(file.definitions) : file.definitions[i][2].kind = "Column"

\* every definition of the Document written is in the Document read, with the
\* same name, the same type and an equal value
SameDefinitionsAndValues(written, read) ==
    \A i \in 1..Len(written.definitions) :
        LET name == written.definitions[i][1]
        IN  /\ DictHas(read.definitions, name)
            /\ DictHas(read.values, name)
            /\ DictGet(read.definitions, name).name = written.definitions[i][2].name
            /\ DictGet(read.definitions, name).type = written.definitions[i][2].type
            /\ DictGet(read.values, name) = DictGet(written.values, name)

RoundTripEnded == pc \in {"write_failed", "read_failed", "read_done"}

\* C2: a Document of Parameters and Arrays written in binary mode and read
\* back has every definition with the same name, type and value.
C2_BinaryRoundTrip ==
    (RoundTripEnded /\ mode = Some(B("binary")) /\ ~HasColumns(sdds_file))
    => /\ pc = "read_done"
       /\ SameDefinitionsAndValues(sdds_file, result.self)

\* C3: a Document of Parameters and Arrays written in ascii mode and read
\* back has every definition with the same name, type and value.
C3_AsciiRoundTrip ==
    (RoundTripEnded /\ mode = Some(B("ascii")) /\ ~HasColumns(sdds_file))
    => /\ pc = "read_done"
       /\ SameDefinitionsAndValues(sdds_file, result.self)

-----------------------------------------------------------------------------
(* Specification SpecHeader: read_sdds on streams made of "SDDS1" and a    *)
(* few pieces of header text and of data                                   *)

MaxPieces == 4

HeaderPieces ==
    {B("&parameter name=a, type=long, &end\n"),
     B("&parameter "),
     B("name=x, "),
     B("&end\n"),
     B("&bogus "),
     B("&data mode=ascii, &end\n"),
     B("&data mode=binary, &end\n"),
     B("7\n7\n")}

HeaderStreams ==
    {B("SDDS1\n") \o Concat(pieces) : pieces \in SeqsUpTo(HeaderPieces, MaxPieces)}

HeaderInit ==
    /\ pc = "read_call"
    /\ inbytes \in HeaderStreams
    /\ sys_byteorder \in {B("little"), B("big")}
    /\ endianness = None
    /\ orig_defs = <<>>
    /\ definitions_list = <<>>
    /\ values_list = <<>>
    /\ sdds_file = Unset
    /\ mode = None
    /\ outbytes = <<>>
    /\ written_fields = <<>>
    /\ pos = 0
    /\ header = Unset
    /\ ascii_text = <<>>
    /\ cursor = 0
    /\ def_index = 0
    /\ data_list = <<>>
    /\ read_fields = <<>>
    /\ result = Unset

HeaderNext ==
    \/ GetEndianness
    \/ ReadHeader
    \/ ReadDataBegin
    \/ DecodeBinary
    \/ DecodeAscii
    \/ ReturnSddsFile

SpecHeader == HeaderInit /\ [][HeaderNext]_vars

\* the words of the stream, as text
WordsOf(bytes) == LET words == _gen_words(bytes) IN [i \in 1..Len(words) |-> words[i].word]

KnownTags ==
    {DescriptionTAG, B("&include"), ParameterTAG, ArrayTAG, ColumnTAG, DataTAG}

\* the index of the first "&end" of w after index i, or 0
NextEnd(w, i) ==
    IF \E j \in (i + 1)..Len(w) : w[j] = B("&end")
    THEN CHOOSE j \in (i + 1)..Len(w) :
             w[j] = B("&end") /\ \A k \in (i + 1)..(j - 1) : w[k] # B("&end")
    ELSE 0

RECURSIVE CommandPositions(_, _)
\* the indices of the words of w that stand where a command tag is expected,
\* from index i on: the word after the version, then the word after each
\* command's "&end", up to and including the first "&data"
CommandPositions(w, i) ==
    IF i > Len(w) THEN {}
    ELSE {i} \cup (IF w[i] = DataTAG \/ NextEnd(w, i) = 0 THEN {}
                   ELSE CommandPositions(w, NextEnd(w, i) + 1))

HeaderWasRead == pc \notin {"read_call", "read_header"}

\* C9: when a word at command position is none of the six known tags,
\* _read_header raises whatever follows that word: read_sdds ends with the
\* exception, no header result exists, and neither the data readers nor the
\* SddsFile constructor have run.
C9_UnknownTagFails ==
    (/\ HeaderWasRead
     /\ LET w == WordsOf(inbytes)
        IN  \E i \in CommandPositions(w, 2) : w[i] \notin KnownTags)
    => /\ pc = "read_failed"
       /\ header.status # "ok"
       /\ "definitions" \notin DOMAIN header
       /\ result = Raised(header.status)
       /\ cursor = 0 /\ def_index = 0 /\ data_list = <<>> /\ ascii_text = <<>>

\* "&bogus &end" followed by a complete &data command and a data line
C9_Witness ==
    /\ pc = "read_failed"
    /\ header.status = "UnknownToken"
    /\ LET w == WordsOf(inbytes)
       IN  \E i \in CommandPositions(w, 2) :
               /\ w[i] = B("&bogus")
               /\ \E j \in (i + 1)..Len(w) : w[j] = DataTAG
    /\ data_list = <<>>

\* the last command of w is cut: a word at command position has no "&end"
\* after it
EndsInsideCommand(w) ==
    \E i \in CommandPositions(w, 2) : NextEnd(w, i) = 0

\* the statement of C10 as the specification words it: whenever the words run
\* out while _read_header is still reading, the error is the missing-&data
\* one ("Found end of file while looking for &data tag.")
C10_Original ==
    (HeaderWasRead /\ header.exhausted)
    => HeaderError(header.status) =
           <<"ValueError", "Found end of file while looking for &data tag.">>

\* C10: when the words run out while _read_header is still reading a stream
\* that starts with the version, it raises a ValueError: the missing-&data one
\* if the stream ends where a command tag is expected (right after the version
\* or after a command's "&end"), and "EOF found while looking for &end tag."
\* if it ends directly after a command tag or inside a command.
C10_ExhaustedHeaderFails ==
    (HeaderWasRead /\ header.exhausted)
    => /\ pc = "read_failed"
       /\ HeaderError(header.status) =
              IF EndsInsideCommand(WordsOf(inbytes))
              THEN <<"ValueError", "EOF found while looking for &end tag.">>
              ELSE <<"ValueError", "Found end of file while looking for &data tag.">>

\* a stream that ends after a complete &parameter command, one that ends
\* directly after a tag and one that ends inside a command are all reachable;
\* the witness is the second
C10_Witness ==
    /\ pc = "read_failed"
    /\ header.exhausted
    /\ LET w == WordsOf(inbytes)
       IN  Len(w) = 6 /\ w[6] = ParameterTAG /\ 6 \in CommandPositions(w, 2)
    /\ header.status = "EOFInCommand"

\* C8: whatever the lengths of the definitions and values lists, the
\* SddsFile the constructor returns has a value for exactly the names it has a
\* definition for.
C8_ValuesKeysAreDefinitionsKeys ==
    (pc = "ctor_done" /\ result.status = "ok")
    => DictKeySet(sdds_file.values) = DictKeySet(sdds_file.definitions)

-----------------------------------------------------------------------------
(* Specification SpecProlog: _read_header on streams that start with a     *)
(* version token, or with none, followed by complete commands              *)

\* a function of reader.py is about to be called (pc = at) on one of the
\* streams, on a host of either byte order
StreamInit(at, streams) ==
    /\ pc = at
    /\ inbytes \in streams
    /\ sys_byteorder \in {B("little"), B("big")}
    /\ endianness = None
    /\ orig_defs = <<>>
    /\ definitions_list = <<>>
    /\ values_list = <<>>
    /\ sdds_file = Unset
    /\ mode = None
    /\ outbytes = <<>>
    /\ written_fields = <<>>
    /\ pos = 0
    /\ header = Unset
    /\ ascii_text = <<>>
    /\ cursor = 0
    /\ def_index = 0
    /\ data_list = <<>>
    /\ read_fields = <<>>
    /\ result = Unset

\* read_sdds(file_path) is called on one of the streams
ReadInit(streams) == StreamInit("read_call", streams)

MaxPrologPieces == 4

PrologStreams ==
    {version \o Concat(pieces) :
        version \in {B("SDDS1\n"), B("SDDS2\n"), B("sdds1 "), <<>>},
        pieces \in SeqsUpTo({B("&description text=t, &end\n"),
                             B("&description contents=two words, &end\n"),
                             B("&parameter name=a, type=long, &end\n"),
                             B("&data mode=ascii, &end\n")},
                            MaxPrologPieces)}

SpecProlog == ReadInit(PrologStreams) /\ [][GetEndianness \/ ReadHeader]_vars

\* C11: when the first word of the stream is not "SDDS1", _read_header raises
\* the AssertionError with that one word taken from the generator: no command
\* is read and no definitions, description or data mode are returned.
C11_VersionMustBeSDDS1 ==
    (/\ HeaderWasRead
     /\ WordsOf(inbytes) # <<>>
     /\ WordsOf(inbytes)[1] # B("SDDS1"))
    => /\ pc = "read_failed"
       /\ result = Raised("AssertionError")
       /\ header.status = "AssertionError"
       /\ header.consumed = 1
       /\ DOMAIN header \cap {"definitions", "description", "data", "version"} = {}

\* the version SDDS2 followed by a complete &parameter command
C11_Witness ==
    /\ pc = "read_failed"
    /\ header.status = "AssertionError"
    /\ Len(WordsOf(inbytes)) > 4
    /\ WordsOf(inbytes)[1] = B("SDDS2")
    /\ WordsOf(inbytes)[2] = ParameterTAG

\* the indices of the &description tags at command position, up to &data
DescriptionPositions(w) == {i \in CommandPositions(w, 2) : w[i] = DescriptionTAG}

\* the Description a &description command makes, by the word after its tag
DescriptionOfCommand(w, i) ==
    IF w[i + 1] = B("text=t,") THEN [text |-> Some(B("t")), contents |-> None]
    ELSE [text |-> None, contents |-> Some(B("two words"))]

\* C12: a header with two or more &description commands before &data fails
\* (after the version "SDDS1", with "Two &description tags found."), and a
\* header with exactly one &description that is read to its &data returns the
\* Description of that command.
C12_AtMostOneDescription ==
    HeaderWasRead
    => /\ Cardinality(DescriptionPositions(WordsOf(inbytes))) >= 2
          => /\ pc = "read_failed"
             /\ header.status # "ok"
             /\ WordsOf(inbytes)[1] = B("SDDS1")
                => HeaderError(header.status) = <<"ValueError", "Two &description tags found.">>
       /\ (Cardinality(DescriptionPositions(WordsOf(inbytes))) = 1 /\ header.status = "ok")
          => \A i \in DescriptionPositions(WordsOf(inbytes)) :
                 header.description = Some(DescriptionOfCommand(WordsOf(inbytes), i))

\* two &description commands, then a &data command: the second one raises
C12_Witness ==
    /\ pc = "read_failed"
    /\ header.status = "TwoDescriptions"
    /\ Cardinality(DescriptionPositions(WordsOf(inbytes))) = 2
    /\ \E j \in 1..Len(WordsOf(inbytes)) : WordsOf(inbytes)[j] = DataTAG

-----------------------------------------------------------------------------
(* Specification SpecEndianness: _get_endianness on streams of header      *)
(* lines, marker comments and data                                         *)

MaxEndiannessPieces == 4

EndiannessStreams ==
    {Concat(pieces) :
        pieces \in SeqsUpTo({B("SDDS1\n"),
                             B("!# big-endian\n"),
                             B("  !# little-endian \n"),
                             B("!# big-endian or little-endian\n"),
                             B("&data mode=binary, &end\n"),
                             <<0, 0, 0, 255>>,
                             B("7\n")},
                            MaxEndiannessPieces)}

SpecEndianness == ReadInit(EndiannessStreams) /\ [][GetEndianness]_vars

\* the first line of the stream that is a marker comment once stripped, if any
FirstMarker(bytes) ==
    LET markers == SelectSeq(Split(bytes, NL),
                             LAMBDA line : Strip(line) \in {B("!# big-endian"),
                                                            B("!# little-endian")})
    IN  IF markers = <<>> THEN None ELSE Some(Strip(markers[1]))

\* C13: _get_endianness returns "big" when the first marker line of the
\* stream is "!# big-endian", "little" when it is "!# little-endian" and
\* sys.byteorder when the stream has no marker line, and leaves the stream at
\* offset 0.
C13_EndiannessDetected ==
    pc # "read_call"
    => /\ pc = "read_header"
       /\ pos = 0
       /\ endianness = Some(IF FirstMarker(inbytes) = None THEN sys_byteorder
                            ELSE IF FirstMarker(inbytes) = Some(B("!# big-endian"))
                            THEN B("big")
                            ELSE B("little"))

-----------------------------------------------------------------------------
(* The byte order of the files written                                     *)

HasMarkerLine(bytes) ==
    \E i \in 1..Len(Split(bytes, NL)) : Split(bytes, NL)[i] = B("!# big-endian")

ReadingAfterEndianness ==
    pc \in {"read_header", "read_data", "decode_binary", "decode_ascii", "read_done"}

\* the four bytes of a long, most significant byte first, for the longs of
\* the Documents written
MostSignificantFirst(n) ==
    IF n = 7 THEN <<0, 0, 0, 7>> ELSE IF n = 5 THEN <<0, 0, 0, 5>> ELSE <<255, 255, 255, 254>>

-----------------------------------------------------------------------------
(* Specification SpecForced: write_sdds in binary mode, then read_sdds     *)
(* with the endianness argument given                                      *)

\* the state before write_sdds(sdds_file, path, mode) and
\* read_sdds(path, endianness) are called
WriteInit(documents, modes, endiannesses) ==
    /\ pc = "write_call"
    /\ sdds_file \in documents
    /\ mode \in modes
    /\ sys_byteorder \in {B("little"), B("big")}
    /\ endianness \in endiannesses
    /\ orig_defs = <<>>
    /\ definitions_list = <<>>
    /\ values_list = <<>>
    /\ outbytes = <<>>
    /\ written_fields = <<>>
    /\ inbytes = <<>>
    /\ pos = 0
    /\ header = Unset
    /\ ascii_text = <<>>
    /\ cursor = 0
    /\ def_index = 0
    /\ data_list = <<>>
    /\ read_fields = <<>>
    /\ result = Unset

SpecForced ==
    /\ WriteInit(RoundTripDocuments, {Some(B("binary"))}, {Some(B("little")), Some(B("big"))})
    /\ [][\/ WriteSdds
          \/ GetEndianness
          \/ ReadHeader
          \/ ReadDataBegin
          \/ DecodeBinary
          \/ ReturnSddsFile]_vars

\* C15: read_sdds told to decode the big-endian data section of a written
\* file as little-endian fails with an error: it never returns a Document
\* whose values differ from the values written.
C15_MismatchDetected ==
    (endianness = Some(B("little")) /\ pc = "read_done")
    => SameDefinitionsAndValues(sdds_file, result.self)

-----------------------------------------------------------------------------
(* Columns in the files read                                               *)

\* C16: read_sdds on a file whose header declares a Column returns no
\* Document, in binary and in ascii mode: the Column is not skipped, and the
\* read that reaches it fails with NotImplementedError.
C16_ColumnsUnsupported ==
    /\ (pc \in {"decode_binary", "decode_ascii"} /\ def_index > 0
            /\ header.definitions[def_index].kind = "Column")
       => FALSE
    /\ (pc = "read_done" /\ header # Unset)
       => \A i \in 1..Len(header.definitions) : header.definitions[i].kind # "Column"
    /\ (/\ pc = "read_failed"
        /\ header # Unset
        /\ "definitions" \in DOMAIN header
        /\ def_index < Len(header.definitions)
        /\ header.definitions[def_index + 1].kind = "Column")
       => result = Raised("NotImplementedError")

-----------------------------------------------------------------------------
(* Specification SpecWrite: write_sdds on Documents with Parameters,       *)
(* Arrays (one of them empty) and Columns of several lengths, with and     *)
(* without a mode attribute, for every mode argument                       *)

MaxWriteDefs == 2

WriteItems(name) ==
    {<<Definition("Parameter", name, TypeLong, NoOpts), 7>>,
     <<Definition("Parameter", name, TypeString, NoOpts), B("hi")>>,
     <<Definition("Array", name, TypeLong, NoOpts), Array1D(<<3, -4>>)>>,
     <<Definition("Array", name, TypeLong, NoOpts), Array1D(<<>>)>>,
     <<Definition("Column", name, TypeLong, NoOpts), Array1D(<<1, 2>>)>>,
     <<Definition("Column", name, TypeLong, NoOpts), Array1D(<<4, 5, 6>>)>>,
     <<Definition("Column", name, TypeLong, NoOpts), Array1D(<<>>)>>,
     <<Definition("Column", name, TypeString, NoOpts), Array1D(<<B("p"), B("q")>>)>>}

WriteDocuments ==
    UNION {{DocumentOf(items), SetAttr(DocumentOf(items), "mode", B("ascii"))} :
              items \in UNION {{f \in [1..k -> UNION {WriteItems(Names[i]) : i \in 1..k}] :
                                   \A i \in 1..k : f[i][1].name = Names[i]}
                               : k \in 0..MaxWriteDefs}}

SpecWrite ==
    /\ WriteInit(WriteDocuments, {None, Some(B("binary")), Some(B("ascii"))}, {None})
    /\ [][WriteSdds]_vars

\* the lengths of the Columns of a Document
ColumnLengths(file) ==
    {file.values[i][2].shape[1] :
        i \in {k \in 1..Len(file.definitions) : file.definitions[k][2].kind = "Column"}}

\* C17: write_sdds on a Document with two Columns of different lengths fails
\* with an error, in binary and in ascii mode; no row of the Columns is
\* written.
C17_UnequalColumnsRejected ==
    (pc # "write_call" /\ Cardinality(ColumnLengths(sdds_file)) > 1)
    => /\ pc = "write_failed"
       /\ \A i \in 1..Len(written_fields) :
              DictGet(sdds_file.definitions, written_fields[i]).kind # "Column"


\* C18: write_sdds leaves its input as it found it: after the call, whether
\* it succeeded or failed and whatever the mode argument, the Document has
\* the attributes it had, with the same values.
C18_InputNotMutated == [][pc = "write_call" => sdds_file' = sdds_file]_vars


\* the Arrays of a Document whose value has no element
EmptyArrays(file) ==
    {i \in 1..Len(file.definitions) :
        /\ file.definitions[i][2].kind = "Array"
        /\ file.values[i][2].flat = <<>>}

\* C19: write_sdds on a Document with an Array of zero elements completes
\* without an error; for the Array it writes the extent 0 and no element (a
\* Document of that one Array has, after the row count, the four bytes of 0
\* in binary mode, and the lines " 0" and "" in ascii mode).
C19_EmptyArrayWritten ==
    (pc # "write_call" /\ EmptyArrays(sdds_file) # {})
    => /\ pc = "read_call"
       /\ Len(sdds_file.definitions) = 1
          => DataSection(write_sdds(sdds_file, mode))
                 = IF sdds_file.mode = B("binary") THEN <<0, 0, 0, 0, 0, 0, 0, 0>>
                   ELSE B(" 0\n\n")

-----------------------------------------------------------------------------
(* Specification SpecAsciiArray: read_sdds on ascii files that declare one *)
(* 2-dimensional Array of longs, with the extents line and a few lines of  *)
(* tokens                                                                  *)

MaxTokenLines == 3

AsciiArrayStreams ==
    {B("SDDS1\n&array name=a, type=long, dimensions=2, &end\n&data mode=ascii, &end\n")
         \o extents \o Concat(token_lines) :
        extents \in {B("2 2\n"), B("1 2\n"), B(" 2  1\n")},
        token_lines \in SeqsUpTo({B("1 2\n"), B("3\n"), B(" 4 5 \n"), B("1  2\n"),
                                  B("1") \o <<9>> \o B("2\n"), B("6 7 8 9\n"), B("\n")},
                                 MaxTokenLines)}

SpecAsciiArray ==
    /\ ReadInit(AsciiArrayStreams)
    /\ [][\/ GetEndianness
          \/ ReadHeader
          \/ ReadDataBegin
          \/ DecodeAscii
          \/ ReturnSddsFile]_vars

\* the whitespace-separated tokens of the first n lines after the extents line
TokensOfLines(lines, n) == Concat([k \in 1..n |-> Words(lines[k + 1])])

\* the numbers of lines after the extents line whose tokens are as many as
\* the product of the extents
LinesToGather(lines) ==
    {n \in 0..(Len(lines) - 1) :
        Len(TokensOfLines(lines, n)) = ParseInt(Words(lines[1])[1]) * ParseInt(Words(lines[1])[2])}

\* C20: when the tokens of the lines that follow the extents line n m,
\* whatever whitespace separates them, are n * m in number after some line,
\* _read_ascii_array returns the array of extents (n, m) whose element [i][j]
\* is the number that token i * m + j spells.
C20_AsciiArrayGathered ==
    (/\ pc \in {"decode_ascii", "read_failed", "read_done"}
     /\ pc = "decode_ascii" => def_index = 1
     /\ LinesToGather(ascii_text) # {})
    => /\ pc # "read_failed"
       /\ Len(data_list) = 1
       /\ data_list[1].shape = <<ParseInt(Words(ascii_text[1])[1]), ParseInt(Words(ascii_text[1])[2])>>
       /\ \A i \in 0..(data_list[1].shape[1] - 1) : \A j \in 0..(data_list[1].shape[2] - 1) :
              data_list[1].flat[i * data_list[1].shape[2] + j + 1]
                  = ParseInt(TokensOfLines(ascii_text, Len(ascii_text) - 1)
                                 [i * data_list[1].shape[2] + j + 1])

-----------------------------------------------------------------------------
(* Specification SpecWords: next(word_gen) on the generator _gen_words of  *)
(* a stream, until it is exhausted.  cursor counts the words taken,        *)
(* data_list holds them, pos is the offset of the stream.                  *)

\* next(word_gen): the next word, or StopIteration
NextWord ==
    /\ pc = "gen_words"
    /\ \E words \in {_gen_words(inbytes)} :
           IF cursor < Len(words)
           THEN /\ data_list' = Append(data_list, words[cursor + 1].word)
                /\ cursor' = cursor + 1
                /\ pos' = StreamPos(inbytes, words, cursor + 1, FALSE)
                /\ UNCHANGED <<pc, result>>
           ELSE /\ pc' = "gen_exhausted"
                /\ result' = Raised("StopIteration")
                /\ pos' = StreamPos(inbytes, words, cursor, TRUE)
                /\ UNCHANGED <<data_list, cursor>>
    /\ UNCHANGED <<orig_defs, definitions_list, values_list, sdds_file, mode, outbytes,
                   written_fields, inbytes, sys_byteorder, endianness, header, ascii_text,
                   def_index, read_fields>>

MaxWordPieces == 3

WordStreams ==
    {Concat(pieces) :
        pieces \in SeqsUpTo({B("   test1\n"),
                             B("test2 test3,") \o <<9>> \o B("test4\n"),
                             B("\n"),
                             B("! comment x\n"),
                             B("  !# big-endian\n"),
                             B("   \n"),
                             B("a!b  c") \o <<13, 10>>,
                             B("w")},
                            MaxWordPieces)}

SpecWords == StreamInit("gen_words", WordStreams) /\ [][NextWord]_vars

\* the lines of a stream that are neither empty nor comments: their first
\* character that is not whitespace is not "!"
WordLines(bytes) ==
    SelectSeq(Split(bytes, NL),
              LAMBDA line : \E i \in 1..Len(line) :
                                /\ line[i] \notin Whitespace
                                /\ line[i] # Ord("!")
                                /\ \A j \in 1..(i - 1) : line[j] \in Whitespace)

\* the maximal runs of characters that are not whitespace, in order
RunsOf(text) ==
    LET EndOf(i) == CHOOSE e \in i..Len(text) :
                        /\ \A j \in i..e : text[j] \notin Whitespace
                        /\ (e = Len(text) \/ text[e + 1] \in Whitespace)
        Runs(starts) ==
            [k \in 1..Cardinality(starts) |-> SubSeq(text, Nth(starts, k), EndOf(Nth(starts, k)))]
    IN  Runs({i \in 1..Len(text) :
                 text[i] \notin Whitespace /\ (i = 1 \/ text[i - 1] \in Whitespace)})

\* the words of a stream: those of its lines that are neither empty nor
\* comments
StreamWords(bytes) == RunsOf(Join(<<SP>>, WordLines(bytes)))

\* C21: the words _gen_words has yielded are, in order, the first
\* whitespace-delimited words of the lines that are neither empty nor
\* comments, none of them empty; it raises StopIteration exactly when all of
\* them have been yielded, on the empty stream at once.
C21_WordsOfRealLines ==
    \A expected \in {StreamWords(inbytes)} :
        /\ cursor = Len(data_list)
        /\ cursor <= Len(expected)
        /\ \A i \in 1..Len(data_list) : i <= Len(expected) => data_list[i] = expected[i]
        /\ \A i \in 1..Len(data_list) : data_list[i] # <<>>
        /\ pc = "gen_exhausted"
           => /\ result = Raised("StopIteration")
              /\ data_list = expected

\* the words of the lines "   test1" and "test2 test3,<TAB>test4" have been
\* yielded around a comment line, and the generator is exhausted
C21_Witness ==
    /\ pc = "gen_exhausted"
    /\ data_list = <<B("test1"), B("test2"), B("test3,"), B("test4")>>
    /\ \E i \in 1..Len(inbytes) : inbytes[i] = Ord("!")

-----------------------------------------------------------------------------
(* Specification SpecDefDict: _get_def_as_dict(word_gen) on a fresh        *)
(* generator, then next(word_gen) until the generator is exhausted.        *)
(* def_index keeps the number of words the call has taken.                 *)

\* def_dict = _get_def_as_dict(word_gen)
GetDefAsDict ==
    /\ pc = "def_dict_call"
    /\ \E words \in {_gen_words(inbytes)} :
       \E r \in {_get_def_as_dict(words, cursor + 1)} :
           /\ cursor' = r.next - 1
           /\ def_index' = r.next - 1
           /\ data_list' = data_list \o [k \in 1..(r.next - 1 - cursor) |-> words[cursor + k].word]
           /\ pos' = StreamPos(inbytes, words, r.next - 1, r.exhausted)
           /\ pc' = IF r.status = "ok" THEN "gen_words" ELSE "gen_failed"
           /\ result' = IF r.status = "ok" THEN r ELSE Raised(HeaderError(r.status)[1])
    /\ UNCHANGED <<orig_defs, definitions_list, values_list, sdds_file, mode, outbytes,
                   written_fields, inbytes, sys_byteorder, endianness, header, ascii_text,
                   read_fields>>

MaxDefDictPieces == 3

DefDictStreams ==
    {Concat(pieces) :
        pieces \in SeqsUpTo({B("test1=value1,  test2= value2, \n"),
                             B("test3=value3, &end"),
                             B(" &end\n"),
                             B("name=a,\ntype=long, "),
                             B("contents=two   words\nmore ,"),
                             B("symbol = s"),
                             B("\n! units=u,\n"),
                             B(" flag, ")},
                            MaxDefDictPieces)}

SpecDefDict == StreamInit("def_dict_call", DefDictStreams) /\ [][GetDefAsDict \/ NextWord]_vars

\* the index of the first of the words that is &end (0 when there is none)
FirstEnd(words) ==
    IF \A k \in 1..Len(words) : words[k] # B("&end") THEN 0
    ELSE CHOOSE k \in 1..Len(words) :
             /\ words[k] = B("&end")
             /\ \A j \in 1..(k - 1) : words[j] # B("&end")

\* the assignments of the text of a command, each from a comma (or the
\* start) to the next comma (or the end): <<first, last>> offsets of the
\* characters between
Assignments(text) ==
    {seg \in ({0} \cup {i \in 1..Len(text) : text[i] = Ord(",")})
                 \X ({i \in 1..Len(text) : text[i] = Ord(",")} \cup {Len(text) + 1}) :
        /\ seg[1] + 1 < seg[2]
        /\ \A i \in (seg[1] + 1)..(seg[2] - 1) : text[i] # Ord(",")}

EqualSigns(text, seg) == {i \in (seg[1] + 1)..(seg[2] - 1) : text[i] = Ord("=")}

KeyOf(text, seg) ==
    Strip(SubSeq(text, seg[1] + 1, (CHOOSE i \in EqualSigns(text, seg) : TRUE) - 1))

ValueOf(text, seg) ==
    Strip(SubSeq(text, (CHOOSE i \in EqualSigns(text, seg) : TRUE) + 1, seg[2] - 1))

\* the mapping is the one of the assignments segs of the text
DictOfAssignments(dict, text, segs) ==
    /\ DictKeySet(dict) = {KeyOf(text, seg) : seg \in segs}
    /\ \A seg \in segs :
           (\A later \in segs : later[1] > seg[1] => KeyOf(text, later) # KeyOf(text, seg))
           => DictGet(dict, KeyOf(text, seg)) = ValueOf(text, seg)

\* C22: on a command whose assignments are all of the form key=value,
\* _get_def_as_dict takes the words up to and including the first &end and no
\* word after it (the next word the generator yields is the one that
\* follows), and returns the mapping with, for every assignment, its key and
\* its value without surrounding whitespace (the words of a value joined by
\* one space), the last assignment to a key being the one kept; the line
\* breaks between the words make no difference.
C22_DefAsDict ==
    pc \in {"gen_words", "gen_exhausted", "gen_failed"}
    => \A words \in {StreamWords(inbytes)} :
       \A text \in {Join(<<SP>>, SubSeq(words, 1, FirstEnd(words) - 1))} :
       \A segs \in {Assignments(text)} :
           (/\ FirstEnd(words) > 0
            /\ \A seg \in segs : Cardinality(EqualSigns(text, seg)) = 1)
           => /\ pc # "gen_failed"
              /\ def_index = FirstEnd(words)
              /\ cursor = Len(data_list)
              /\ \A i \in 1..Len(data_list) : data_list[i] = words[i]
              /\ pc = "gen_words"
                 => /\ result.status = "ok"
                    /\ DictOfAssignments(result.dict, text, segs)

\* the command of three assignments over two lines has been read, one of its
\* values after a space, and the word after its &end has been yielded
C22_Witness ==
    /\ pc = "gen_words"
    /\ DictHas(result.dict, B("test1")) /\ DictGet(result.dict, B("test1")) = B("value1")
    /\ DictHas(result.dict, B("test2")) /\ DictGet(result.dict, B("test2")) = B("value2")
    /\ DictHas(result.dict, B("test3")) /\ DictGet(result.dict, B("test3")) = B("value3")
    /\ Len(data_list) = def_index + 1
    /\ data_list[def_index] = B("&end")

-----------------------------------------------------------------------------
(* Specification SpecString: write_sdds in binary mode and read_sdds on a  *)
(* Document of one string Parameter, over strings of ASCII and other       *)
(* characters                                                              *)

MaxStringLen == 3

\* the strings of up to MaxStringLen of the characters a, space, e acute and
\* the euro sign
StringDocuments ==
    {DocumentOf(<<<<Definition("Parameter", Names[1], TypeString, NoOpts), string>>>>) :
        string \in SeqsUpTo({97, 32, 233, 8364}, MaxStringLen)}

SpecString ==
    /\ WriteInit(StringDocuments, {Some(B("binary"))}, {None})
    /\ [][\/ WriteSdds
          \/ GetEndianness
          \/ ReadHeader
          \/ ReadDataBegin
          \/ DecodeBinary
          \/ ReturnSddsFile]_vars

\* the UTF-8 encoding of one of the characters of the strings
EncodingOf(c) ==
    IF c = 233 THEN <<195, 169>> ELSE IF c = 8364 THEN <<226, 130, 172>> ELSE <<c>>

\* C23: the string of a Parameter is written, after the row count, as the
\* four bytes of the number of bytes of its encoding followed by exactly the
\* bytes of its encoding, whatever its characters, and reading the file gives
\* the string back.
C23_StringsLengthPrefixed ==
    \A string \in {sdds_file.values[1][2]} :
    \A encoded \in {Concat([i \in 1..Len(string) |-> EncodingOf(string[i])])} :
        /\ pc # "write_call"
           => outbytes = _write_header(sdds_file) \o <<0, 0, 0, 0>>
                             \o <<0, 0, 0, Len(encoded)>> \o encoded
        /\ RoundTripEnded
           => /\ pc = "read_done"
              /\ result.self.values = <<<<Names[1], string>>>>

-----------------------------------------------------------------------------
(* Specification SpecArrays: write_sdds in binary mode and read_sdds on a  *)
(* Document of one Array of longs, over the nesting depths of its value    *)
(* and the dimensions its definition declares                              *)

MaxDepth == 3

\* the arrays of extents 1 or 2 per axis with up to MaxDepth axes, under a
\* definition that declares no dimensions or 1 to MaxDepth of them
ArrayDocuments ==
    {DocumentOf(<<<<Definition("Array", Names[1], TypeLong,
                               IF dimensions = 0 THEN NoOpts
                               ELSE [dimensions |-> Some(dimensions)]),
                    [shape |-> shape, flat |-> [i \in 1..Product(shape, 8) |-> i]]>>>>) :
        shape \in SeqsUpTo({1, 2}, MaxDepth) \ {<<>>},
        dimensions \in 0..MaxDepth}

SpecArrays ==
    /\ WriteInit(ArrayDocuments, {Some(B("binary"))}, {None})
    /\ [][\/ WriteSdds
          \/ GetEndianness
          \/ ReadHeader
          \/ ReadDataBegin
          \/ DecodeBinary
          \/ ReturnSddsFile]_vars

\* C24: the extents that the binary writer puts between the row count and
\* the elements of an Array are as many as the decoder reads for its
\* definition: the dimensions it declares, 1 when it declares none.
C24_ExtentCountsAgree ==
    (pc = "decode_binary" /\ def_index = 0)
    => \A written \in {(Len(inbytes) - cursor - 4 * Len(sdds_file.values[1][2].flat)) \div 4} :
       \A read \in {_read_bin_array_len(inbytes, cursor, header.definitions[1].dimensions,
                                        endianness[1])} :
           /\ read.status = "ok"
           /\ read.pos - cursor = 4 * written
           /\ written = IF sdds_file.definitions[1][2].dimensions = None THEN 1
                        ELSE sdds_file.definitions[1][2].dimensions[1]


-----------------------------------------------------------------------------
(* writer.py: the row count at the head of the pages                        *)

MaxPages == 2
MaxRows == 2

\* a Document of npages pages: an optional long Parameter and ncols long
\* Columns, all Columns of a page with rows[page] rows; a Document of several
\* pages holds under each name the list of its values page by page
PagedDocument(nparams, ncols, npages, rows) ==
    LET ColumnOf(n) == Array1D([i \in 1..n |-> i])
        Paged(of_page) == IF npages = 1 THEN of_page[1] ELSE of_page
    IN  WithPages(SddsFile__init__(SDDS1, None,
                      [i \in 1..(nparams + ncols) |->
                          Definition(IF i <= nparams THEN "Parameter" ELSE "Column",
                                     Names[i], TypeLong, NoOpts)],
                      [i \in 1..(nparams + ncols) |->
                          IF i <= nparams THEN Paged([p \in 1..npages |-> 7])
                          ELSE Paged([p \in 1..npages |-> ColumnOf(rows[p])])]).self,
                  npages)

\* the Documents of npages pages
PagedDocuments(npages) ==
    {PagedDocument(nparams, ncols, npages, rows) :
        nparams \in {0, 1}, ncols \in {0, 1, 2}, rows \in [1..npages -> 0..MaxRows]}

SpecPages ==
    /\ \E npages \in 1..MaxPages :
           WriteInit(PagedDocuments(npages), {Some(B("binary"))}, {None})
    /\ [][WriteSdds]_vars

\* the number of rows of the Columns of a page: 0 without Columns
RowsOfPage(file, page) ==
    LET cols == {i \in 1..Len(file.definitions) : file.definitions[i][2].kind = "Column"}
    IN  IF cols = {} THEN 0
        ELSE (IF file.npages > 1 THEN file.values[CHOOSE i \in cols : TRUE][2][page]
              ELSE file.values[CHOOSE i \in cols : TRUE][2]).shape[1]

\* the bytes a page of long Parameters and long Columns takes: its row
\* count, its Parameters, its rows
PageSize(file, page) ==
    4 + 4 * Cardinality({i \in 1..Len(file.definitions) :
                            file.definitions[i][2].kind = "Parameter"})
      + 4 * RowsOfPage(file, page)
          * Cardinality({i \in 1..Len(file.definitions) :
                            file.definitions[i][2].kind = "Column"})

RECURSIVE PageStart(_, _)
PageStart(file, page) ==
    IF page = 1 THEN 0 ELSE PageStart(file, page - 1) + PageSize(file, page - 1)

\* C25: in a binary write the row count at the head of every page is the
\* number of rows of the Columns of that page, 0 for a Document without
\* Columns, for a Document of one page and for each page of a Document of
\* several pages.
C25_RowCountPerPage ==
    pc = "read_call"
    => \A head \in {write_sdds(sdds_file, mode).header_len} :
           /\ Len(outbytes) = head + PageStart(sdds_file, sdds_file.npages + 1)
           /\ \A page \in 1..sdds_file.npages :
                  SubSeq(outbytes, head + PageStart(sdds_file, page) + 1,
                         head + PageStart(sdds_file, page) + 4)
                      = IntToBytes(RowsOfPage(sdds_file, page), 4)


-----------------------------------------------------------------------------
(* reader.py: where _read_header leaves the stream                          *)

MaxDataPieces == 3

\* headers whose &data command ends a line, spans two lines, or shares its
\* line with what follows, each followed by lines of data; the data hold
\* "\n" bytes, a comment and the word &end
DataStartStreams ==
    {B("SDDS1\n") \o marker \o definition \o data \o Concat(pieces) :
        marker \in {<<>>, B("!# big-endian\n")},
        definition \in {<<>>, B("&parameter name=a, type=long, &end\n")},
        data \in {B("&data mode=binary, &end\n"),
                  B("&data mode=ascii, &end\n"),
                  B("&data\nmode=binary,\n&end\n"),
                  B("&data mode=ascii, &end ")},
        pieces \in SeqsUpTo({<<0, 0, 0, 10>>, <<10>>, B("7\n"), B("&end\n"), B("! c\n")},
                            MaxDataPieces)}

SpecDataStart ==
    /\ ReadInit(DataStartStreams)
    /\ [][GetEndianness \/ ReadHeader \/ ReadDataBegin]_vars

\* the offsets of the stream at which a line ends
LineEnds(bytes) == {e \in 1..Len(bytes) : bytes[e] = NL \/ e = Len(bytes)}

\* the line of the stream that ends at offset e
LineEndingAt(bytes, e) ==
    SubSeq(bytes, (CHOOSE p \in 0..(e - 1) :
                      /\ p = 0 \/ bytes[p] = NL
                      /\ \A q \in (p + 1)..(e - 1) : bytes[q] # NL) + 1, e)

\* the first byte of the data section is the one after the first line with
\* which the lines read so far hold a whole header: SDDS1, commands, and a
\* &data command closed by its &end
DataStart(bytes) ==
    Min({e \in LineEnds(bytes) : _read_header(SubSeq(bytes, 1, e)).status = "ok"})

\* C26: when _read_header returns, the stream stands right after the line
\* that holds the &end of the &data command, no further, and the data codec
\* starts there: the binary one reads the row count from the four bytes that
\* follow, the ASCII one takes the lines that follow.
C26_HeaderStopsAtDataStart ==
    (pc \in {"read_data", "decode_binary", "decode_ascii"})
    => \A start \in {DataStart(inbytes)} :
           /\ header.pos = start
           /\ \E w \in {Words(Strip(LineEndingAt(inbytes, start)))} :
                  \E i \in 1..Len(w) : w[i] = EndTAG
           /\ pc = "read_data" => pos = start
           /\ pc = "decode_binary" => cursor = start + 4
           /\ pc = "decode_ascii" => ascii_text = AsciiText(inbytes, start)

\* the header was read from a stream whose data hold "\n" bytes and the word
\* &end, after a &data command that spans lines
C26_Witness ==
    /\ pc = "decode_binary"
    /\ cursor < Len(inbytes)
    /\ \E w \in {WordsOf(SubSeq(inbytes, cursor + 1, Len(inbytes)))} :
           \E i \in 1..Len(w) : w[i] = EndTAG
    /\ LineEndingAt(inbytes, header.pos) = B("&end\n")


-----------------------------------------------------------------------------
(* writer.py: _sdds_def_as_str, read back as _read_header reads a command   *)

MaxFieldsSet == 2

\* the values an optional str field is given
FieldTexts == {B("m"), B("two words")}

\* Parameters, Arrays and Columns with up to MaxFieldsSet optional fields set,
\* and Descriptions with each of their two fields set or not
HeaderObjects ==
    {Definition(kind, Names[1], type, opts) :
        kind \in {"Parameter", "Array", "Column"},
        type \in {TypeLong, TypeString},
        opts \in UNION {[set -> {Some(t) : t \in FieldTexts}] :
                           set \in {s \in SUBSET {"symbol", "units", "description"} :
                                       Cardinality(s) <= MaxFieldsSet}}}
    \cup {Definition("Array", Names[1], TypeLong, [dimensions |-> Some(d)]) : d \in 1..MaxFieldsSet}
    \cup {[text |-> text, contents |-> contents] :
            text \in {None} \cup {Some(t) : t \in FieldTexts},
            contents \in {None} \cup {Some(t) : t \in FieldTexts}}

HeaderTextInit ==
    /\ pc = "def_str_call"
    /\ orig_defs \in {<<object>> : object \in HeaderObjects}
    /\ definitions_list = <<>>
    /\ values_list = <<>>
    /\ sdds_file = Unset
    /\ mode = None
    /\ outbytes = <<>>
    /\ written_fields = <<>>
    /\ inbytes = <<>>
    /\ pos = 0
    /\ sys_byteorder = B("little")
    /\ endianness = None
    /\ header = Unset
    /\ ascii_text = <<>>
    /\ cursor = 0
    /\ def_index = 0
    /\ data_list = <<>>
    /\ read_fields = <<>>
    /\ result = Unset

\* encoded = _sdds_def_as_str(original).encode(ENCODING), put in a stream
SddsDefAsStr ==
    /\ pc = "def_str_call"
    /\ outbytes' = IF "kind" \in DOMAIN orig_defs[1] THEN _sdds_def_as_str(orig_defs[1])
                   ELSE DescriptionAsStr(orig_defs[1])
    /\ inbytes' = outbytes'
    /\ pc' = "def_parse_call"
    /\ UNCHANGED <<orig_defs, definitions_list, values_list, sdds_file, mode, written_fields,
                   pos, sys_byteorder, endianness, header, ascii_text, cursor, def_index,
                   data_list, read_fields, result>>

\* the command of the stream read as the loop of _read_header reads one:
\* word = next(word_gen); def_dict = _get_def_as_dict(word_gen); then the
\* class of the tag is constructed from def_dict
ConstructCommand(words) ==
    LET Constructed(made, field) ==
            IF made.status = "ok" THEN [status |-> "ok", value |-> made[field]]
            ELSE Raised(made.status)
        OfDict(word, dd) ==
            IF dd.status # "ok" THEN Raised(dd.status)
            ELSE IF word \in {ColumnTAG, ParameterTAG, ArrayTAG}
            THEN Constructed(MakeDefinition(KindOfTag(word), dd.dict), "def")
            ELSE IF word = DescriptionTAG
            THEN Constructed(MakeDescription(dd.dict), "description")
            ELSE Raised("UnknownToken")
    IN  IF words = <<>> THEN Raised("StopIteration")
        ELSE OfDict(words[1].word, _get_def_as_dict(words, 2))

ParseDefinition ==
    /\ pc = "def_parse_call"
    /\ \E words \in {_gen_words(inbytes)} :
           /\ result' = ConstructCommand(words)
           /\ pos' = IF words = <<>> THEN Len(inbytes) ELSE words[Len(words)].end
    /\ pc' = IF result'.status = "ok" THEN "def_parsed" ELSE "def_parse_failed"
    /\ UNCHANGED <<orig_defs, definitions_list, values_list, sdds_file, mode, outbytes,
                   written_fields, inbytes, sys_byteorder, endianness, header, ascii_text,
                   cursor, def_index, data_list, read_fields>>

SpecHeaderText == HeaderTextInit /\ [][SddsDefAsStr \/ ParseDefinition]_vars

\* C27: the text _sdds_def_as_str produces for a Parameter, an Array, a Column
\* or a Description, once tokenized, turned into a dict by _get_def_as_dict
\* and given to the constructor, yields an object equal to the original; a
\* field that is None in the original is None in the result.
C27_HeaderTextRoundTrip ==
    (pc \notin {"def_str_call", "def_parse_call"})
    => /\ pc = "def_parsed"
       /\ result.value = orig_defs[1]


-----------------------------------------------------------------------------
(* reader.py: the end of the gathering loop of _read_ascii_array            *)

\* _read_ascii_array has run on the lines of the data section
AsciiArrayWasRead ==
    \/ pc \in {"read_failed", "read_done"}
    \/ pc = "decode_ascii" /\ def_index = 1

\* C28: _read_ascii_array ends on every finite stream of lines.  It returns
\* at the first line after which the tokens gathered are product(extents) in
\* number, with an array of that many elements; when no line brings the count
\* to product(extents), too few tokens or a line that takes it past, it
\* fails once the lines are exhausted.
C28_AsciiArrayEnds ==
    AsciiArrayWasRead
    => \A gather \in {LinesToGather(ascii_text)} :
           IF gather # {}
           THEN /\ pc # "read_failed"
                /\ cursor = 1 + Min(gather)
                /\ Len(data_list) = 1
                /\ Len(data_list[1].flat)
                       = ParseInt(Words(ascii_text[1])[1]) * ParseInt(Words(ascii_text[1])[2])
           ELSE /\ pc = "read_failed"
                /\ cursor = Len(ascii_text)

=============================================================================
